---- MODULE Spec2Model ----
(***************************************************************************)
(* Label-guided Voronoi subparcellation, hemisphere combination            *)
(* (src/src/mld_tbss/utils.py), ordinal relabeling                         *)
(* (src/src/mld_tbss/nifti_visualisation_helper.py) and the white-matter   *)
(* scripts that call the first two for every label-map file of a directory *)
(* (src/scripts/h_subsegment_white_matter.py, j_subsegment_ch2_example.py).*)
(*                                                                         *)
(* voronoi_subparcellate and combine_hemispheres are functions of their    *)
(* arguments; relabel_nifti and relabel_nifti_to_meta_structure are        *)
(* functions of the image (and the table) they load, and their outcome is  *)
(* the image they save.  The model draws the arguments of one call in Init *)
(* and applies the function in an action, which stores the outcome (the    *)
(* returned array or the raised exception).  The two array functions are   *)
(* then called a second time on the same argument objects.                 *)
(*                                                                         *)
(* Arrays are records [shape, dtype, data]: shape is the tuple of axis     *)
(* lengths, data maps every index tuple (0-based coordinates, as in numpy) *)
(* to the stored value.  The nearest-seed search is the library call       *)
(* scipy.ndimage.distance_transform_edt; it is modelled by the steps of    *)
(* its exact feature transform, so that its agreement with a brute-force   *)
(* nearest-seed search is checked and not assumed.                         *)
(*                                                                         *)
(* Specifications:                                                         *)
(*   Spec                 every call of the model                          *)
(*   SpecTwoLabels        voronoi_subparcellate, dtype_out=None, two labels*)
(*   SpecPositiveSpacing  voronoi_subparcellate, dtype_out=None, a         *)
(*                        well-formed spacing                              *)
(*   SpecCombine          combine_hemispheres                              *)
(*   SpecRelabel          the two relabelers                               *)
(*   SpecMetaOneRowPerId  relabel_nifti_to_meta_structure, tables with one *)
(*                        row per id and none for the id 0                 *)
(*   SpecMetaAddedRow     the same, and a second call after a row was     *)
(*                        added to the table                               *)
(*   SpecPipeline         the runs of the white-matter scripts, one step   *)
(*                        per entry of the directory                       *)
(***************************************************************************)
EXTENDS Integers, Sequences, FiniteSets, TLC

VARIABLES pc, to_subdivide, seed_labels, spacing, dtype_out, result,
          left, right, combined, returned_in, again, data, table, written,
          script, freesurfer_labelmap_full, directory, pending, file,
          voronoi_segm_left, voronoi_segm_right, voronoi_segm_wholebrain,
          raised, count, printed

\* the state of a run of a white-matter script
pipeline_vars ==
    <<script, freesurfer_labelmap_full, directory, pending, file,
      voronoi_segm_left, voronoi_segm_right, voronoi_segm_wholebrain,
      raised, count, printed>>

vars == <<pc, to_subdivide, seed_labels, spacing, dtype_out, result,
          left, right, combined, returned_in, again, data, table, written,
          pipeline_vars>>

(***************************************************************************)
(* Bounds of the model.                                                    *)
(***************************************************************************)
\* longest axis of an input array
MaxSide == 3
\* most voxels of a 1-D or 2-D input array
MaxVoxels == 6
\* most seed voxels (non-zero voxels of seed_labels) of an input
MaxSeeds == 3
\* most rows of a generated lookup table
MaxRows == 2
\* most entries of the directory of a run
MaxFiles == 3

(***************************************************************************)
(* numpy arrays                                                            *)
(***************************************************************************)
Rank(shape) == Len(shape)

\* all index tuples of an array of the given shape
Indices(shape) ==
    {i \in [1..Len(shape) -> 0..(MaxSide - 1)] : \A k \in 1..Len(shape) : i[k] < shape[k]}

\* numpy integer dtypes narrower than the labels' int32: bits and signedness
DtypeBits(dt) == IF dt = "uint8" THEN 8 ELSE 16

DtypeSigned(dt) == dt = "int16"

\* value stored when the int32 value x is written into an array of dtype dt
\* (the unsafe cast of array assignment: two's complement wrap-around); every
\* integer of the model is an int32, which the cast to int32 leaves alone
CastTo(dt, x) ==
    IF dt = "int32" THEN x
    ELSE LET m == 2 ^ DtypeBits(dt)
             r == x % m
         IN  IF DtypeSigned(dt) /\ r >= m \div 2 THEN r - m ELSE r

MkArray(shape, dt, f) ==
    [shape |-> shape, dtype |-> dt, data |-> [i \in Indices(shape) |-> f[i]]]

NoArray == [shape |-> <<>>, dtype |-> "none", data |-> <<>>]

\* mutant of AnyNonZero: the test left out
AnyNonZeroSkipped(a) == TRUE

\* np.any(a != 0)
AnyNonZero(a) == \E i \in Indices(a.shape) : a.data[i] # 0

(***************************************************************************)
(* scipy.ndimage.distance_transform_edt(edt_input, sampling=spacing,       *)
(* return_distances=False, return_indices=True), as called by              *)
(* voronoi_subparcellate: the exact Euclidean feature transform.  For      *)
(* every voxel it returns the index tuple of a nearest zero voxel of its   *)
(* input.  The transform works axis by axis: the first pass writes at      *)
(* every zero voxel its own coordinates and -1 (first coordinate) at       *)
(* every other voxel, and for d = 1..rank one pass over every line along   *)
(* axis d keeps, in a stack g, the candidates whose Voronoi cell meets the *)
(* line, and then gives every voxel of the line the nearest candidate of   *)
(* the stack, walking the stack from its start.                            *)
(***************************************************************************)

\* sampling as the transform uses it: the factors of the axes; None leaves
\* every factor out, which is a factor of 1
Sampling(sp, rank) == IF sp.given THEN sp.val ELSE [k \in 1..rank |-> 1]

\* _normalize_sequence(sampling, input.ndim): a sequence of another length
\* than the rank raises RuntimeError
SamplingLengthOk(sp, rank) == ~sp.given \/ Len(sp.val) = rank

Sq(x) == x * x

\* coordinates of the voxel at position ii of the line through coor along axis d
OnLine(coor, d, ii) == [coor EXCEPT ![d] = ii]

\* squared weighted distance, off axis d, between feature p and the line
OffAxis(p, coor, d, samp) ==
    LET RECURSIVE Sum(_)
        Sum(jj) == IF jj = 0 THEN 0
                   ELSE Sum(jj - 1)
                        + (IF jj = d THEN 0 ELSE Sq((p[jj] - coor[jj]) * samp[jj]))
    IN  Sum(Len(coor))

\* squared weighted distance between feature p and position ii of the line
Delta(p, coor, d, ii, samp) ==
    OffAxis(p, coor, d, samp) + Sq((p[d] - ii) * samp[d])

\* the while (l >= 1) loop of _VoronoiFT: drop from the top of the stack g
\* the candidates hidden by the one below and by the new candidate at ii
RECURSIVE PruneStack(_, _, _, _, _, _)
PruneStack(g, f, ii, coor, d, samp) ==
    IF Len(g) < 2 THEN g
    ELSE LET idx1 == g[Len(g)]
             idx2 == g[Len(g) - 1]
             a == (f[idx1][d] - f[idx2][d]) * samp[d]
             b == (f[ii][d] - f[idx1][d]) * samp[d]
             c == a + b
             uR == OffAxis(f[idx2], coor, d, samp)
             vR == OffAxis(f[idx1], coor, d, samp)
             wR == OffAxis(f[ii], coor, d, samp)
         IN  IF c * vR - b * uR - a * wR - a * b * c <= 0
             THEN g
             ELSE PruneStack(SubSeq(g, 1, Len(g) - 1), f, ii, coor, d, samp)

\* first loop of _VoronoiFT over the positions 0..len-1 of the line: the stack
\* of the positions whose feature is set (first coordinate >= 0)
RECURSIVE BuildStack(_, _, _, _, _, _)
BuildStack(f, len, ii, coor, d, samp) ==
    IF ii < 0 THEN <<>>
    ELSE LET g == BuildStack(f, len, ii - 1, coor, d, samp)
         IN  IF f[ii][1] >= 0
             THEN Append(PruneStack(g, f, ii, coor, d, samp), ii)
             ELSE g

\* the while (l < maxl) loop of _VoronoiFT at position ii, from stack entry l
\* (1-based): move on while the next candidate is strictly nearer
RECURSIVE Advance(_, _, _, _, _, _, _)
Advance(l, g, f, ii, coor, d, samp) ==
    IF l < Len(g)
       /\ Delta(f[g[l]], coor, d, ii, samp) > Delta(f[g[l + 1]], coor, d, ii, samp)
    THEN Advance(l + 1, g, f, ii, coor, d, samp)
    ELSE l

\* second loop of _VoronoiFT: the stack entry used at position ii; l is kept
\* from one position to the next
RECURSIVE StackPos(_, _, _, _, _, _)
StackPos(g, f, ii, coor, d, samp) ==
    Advance(IF ii = 0 THEN 1 ELSE StackPos(g, f, ii - 1, coor, d, samp),
            g, f, ii, coor, d, samp)

\* _VoronoiFT on the line through coor along axis d: the features of the line
\* afterwards (unchanged when no feature of the line is set)
VoronoiFT(ft, shape, coor, d, samp) ==
    LET len == shape[d]
        f == [ii \in 0..(len - 1) |-> ft[OnLine(coor, d, ii)]]
        g == BuildStack(f, len, len - 1, coor, d, samp)
    IN  [ii \in 0..(len - 1) |->
            IF g = <<>> THEN f[ii] ELSE f[g[StackPos(g, f, ii, coor, d, samp)]]]

\* the features after the initialisation of _ComputeFT (d == 0): a zero voxel
\* of the input holds its own coordinates, any other voxel -1 in the first
\* coordinate and the 0 of the np.zeros allocation in the others
InitFT(input) ==
    [v \in Indices(input.shape) |->
        IF input.data[v] # 0
        THEN [k \in 1..Rank(input.shape) |-> IF k = 1 THEN -1 ELSE 0]
        ELSE v]

\* the features with those of the line through coor along axis d overwritten
\* by line, positions 0..ii (_VoronoiFT writes its result in place)
RECURSIVE WriteLine(_, _, _, _, _)
WriteLine(ft, coor, d, line, ii) ==
    IF ii < 0 THEN ft
    ELSE [WriteLine(ft, coor, d, line, ii - 1) EXCEPT ![OnLine(coor, d, ii)] = line[ii]]

\* _VoronoiFT on each of the given lines along axis d, one after the other
RECURSIVE PassLines(_, _, _, _, _)
PassLines(ft, shape, lines, d, samp) ==
    IF lines = {} THEN ft
    ELSE LET c == CHOOSE x \in lines : TRUE
         IN  PassLines(WriteLine(ft, c, d, VoronoiFT(ft, shape, c, d, samp), shape[d] - 1),
                       shape, lines \ {c}, d, samp)

\* one pass of _VoronoiFT over all lines along axis d
PassFT(ft, shape, d, samp) ==
    PassLines(ft, shape, {v \in Indices(shape) : v[d] = 0}, d, samp)

\* the passes for the axes 1..d, in this order
RECURSIVE ComputeFT(_, _, _)
ComputeFT(input, d, samp) ==
    IF d = 0 THEN InitFT(input)
    ELSE PassFT(ComputeFT(input, d - 1, samp), input.shape, d, samp)

\* distance_transform_edt(..., return_indices=True): the index array, here as
\* a function from voxels to index tuples
distance_transform_edt(input, sp) ==
    ComputeFT(input, Rank(input.shape), Sampling(sp, Rank(input.shape)))

(***************************************************************************)
(* voronoi_subparcellate                                                   *)
(***************************************************************************)
Ok(arr) == [kind |-> "ok", exc |-> "", msg |-> "", arr |-> arr]

Raise(exc, msg) == [kind |-> "error", exc |-> exc, msg |-> msg, arr |-> NoArray]

NoResult == [kind |-> "none", exc |-> "", msg |-> "", arr |-> NoArray]

MsgShape == "Input arrays must have the same shape."
MsgNdim == "Expect at least 2D arrays."
\* (the message, without its backquotes)
MsgEmpty == "to_subdivide contains no non-zero voxels to assign."
MsgSampling == "sequence argument must have length equal to input rank"

\* mutant of edt_input: the inversion left out, seeds are 1 and the rest 0
edt_input_not_inverted(sl) ==
    MkArray(sl.shape, "uint8", [i \in Indices(sl.shape) |-> IF sl.data[i] = 0 THEN 0 ELSE 1])

\* edt_input = (seed_labels == 0).astype(np.uint8): 1 outside seeds, 0 at seeds
edt_input(sl) ==
    MkArray(sl.shape, "uint8", [i \in Indices(sl.shape) |-> IF sl.data[i] = 0 THEN 1 ELSE 0])

\* a[idx] for an index tuple idx of integers: a negative index counts from
\* the end of its axis
WrapIndex(shape, idx) ==
    [k \in 1..Len(shape) |-> IF idx[k] < 0 THEN idx[k] + shape[k] ELSE idx[k]]

\* mutant of nearest_labels: the gather through nearest_idx left out
nearest_labels_no_gather(sl, nearest_idx) ==
    [v \in Indices(sl.shape) |-> sl.data[v]]

\* nearest_labels = seed_labels[tuple(nearest_idx)]
nearest_labels(sl, nearest_idx) ==
    [v \in Indices(sl.shape) |-> sl.data[WrapIndex(sl.shape, nearest_idx[v])]]

\* mutant of Truthy: the truth value of an object with a length, true when
\* the length is not 0 (a np.dtype instance has length 0, its number of fields)
TruthyByLength(dt) == dt.form \in {"type", "str"}

\* truth value of the dtype_out argument in the expression
\* (dtype_out or seed_labels.dtype): None is false; a scalar type (np.int32),
\* a np.dtype instance and a dtype name ("int32") are true
Truthy(dt) == dt.form # "None"

\* dtype of subsegmented_arr: np.zeros_like(..., dtype=dtype_out or seed_labels.dtype)
OutDtype(sl, dt) == IF Truthy(dt) THEN dt.name ELSE sl.dtype

\* mutant of subsegmented_arr: the labels are assigned at every voxel
subsegmented_arr_no_mask(td, sl, labels, dt) ==
    MkArray(sl.shape, OutDtype(sl, dt),
            [v \in Indices(sl.shape) |-> CastTo(OutDtype(sl, dt), labels[v])])

\* subsegmented_arr = zeros; subsegmented_arr[mask] = nearest_labels[mask]
\* with mask = to_subdivide != 0: the assignment casts to the output dtype
subsegmented_arr(td, sl, labels, dt) ==
    MkArray(sl.shape, OutDtype(sl, dt),
            [v \in Indices(sl.shape) |->
                IF td.data[v] # 0 THEN CastTo(OutDtype(sl, dt), labels[v]) ELSE 0])

\* mutant of voronoi_subparcellate: the dimensionality and empty-mask checks
\* come before the shape check
voronoi_subparcellate_shape_last(td, sl, sp, dt) ==
    IF Rank(td.shape) < 2 THEN Raise("ValueError", MsgNdim)
    ELSE IF ~AnyNonZero(td) THEN Raise("ValueError", MsgEmpty)
    ELSE IF td.shape # sl.shape THEN Raise("ValueError", MsgShape)
    ELSE IF ~SamplingLengthOk(sp, Rank(sl.shape)) THEN Raise("RuntimeError", MsgSampling)
    ELSE LET nearest_idx == distance_transform_edt(edt_input(sl), sp)
         IN  Ok(subsegmented_arr(td, sl, nearest_labels(sl, nearest_idx), dt))

\* the function: the three checks in the order of the source, the feature
\* transform (which rejects a spacing of the wrong length), the gather of the
\* labels and the masked assignment
voronoi_subparcellate(td, sl, sp, dt) ==
    IF td.shape # sl.shape THEN Raise("ValueError", MsgShape)
    ELSE IF Rank(td.shape) < 2 THEN Raise("ValueError", MsgNdim)
    ELSE IF ~AnyNonZero(td) THEN Raise("ValueError", MsgEmpty)
    ELSE IF ~SamplingLengthOk(sp, Rank(sl.shape)) THEN Raise("RuntimeError", MsgSampling)
    ELSE LET nearest_idx == distance_transform_edt(edt_input(sl), sp)
         IN  Ok(subsegmented_arr(td, sl, nearest_labels(sl, nearest_idx), dt))

(***************************************************************************)
(* combine_hemispheres                                                     *)
(*                                                                         *)
(* The arrays of combine_hemispheres may hold 64-bit integers.  A value is *)
(* the pair <<hi, lo>>, standing for hi * 2^27 + lo with 0 <= lo < 2^27;   *)
(* the model holds the values 0 .. 2^54 - 1.                               *)
(***************************************************************************)
Limb == 2 ^ 27

\* the pair of a small non-negative integer
Wide(x) == <<x \div Limb, x % Limb>>

WideZero == <<0, 0>>

\* the sum of two values
AddW(a, b) == <<a[1] + b[1] + ((a[2] + b[2]) \div Limb), (a[2] + b[2]) % Limb>>

\* np.issubdtype(dt, np.integer): the signed and unsigned integer dtypes;
\* float64 and bool are not among them
IsInteger(dt) == dt \in {"int8", "uint8", "int16", "int32", "int64", "uint64"}

IsUnsigned(dt) == dt \in {"uint8", "uint64"}

IntBits(dt) ==
    IF dt \in {"int8", "uint8"} THEN 8
    ELSE IF dt = "int16" THEN 16
    ELSE IF dt = "int32" THEN 32
    ELSE 64

SignedOfBits(b) ==
    IF b = 8 THEN "int8" ELSE IF b = 16 THEN "int16" ELSE IF b = 32 THEN "int32" ELSE "int64"

\* np.result_type of two integer dtypes, the dtype np.where gives its result:
\* the wider of two dtypes of one signedness; for a signed and an unsigned
\* dtype the signed one when it is wider, otherwise the signed dtype of
\* twice the unsigned width, and float64 when the unsigned dtype is uint64
result_type(a, b) ==
    IF a = b THEN a
    ELSE IF IsUnsigned(a) = IsUnsigned(b)
         THEN (IF IntBits(a) >= IntBits(b) THEN a ELSE b)
    ELSE LET u == IF IsUnsigned(a) THEN a ELSE b
             sg == IF IsUnsigned(a) THEN b ELSE a
         IN  IF IntBits(u) < IntBits(sg) THEN sg
             ELSE IF IntBits(u) = 64 THEN "float64"
             ELSE SignedOfBits(2 * IntBits(u))

\* the float64 nearest to an integer below 2^54: every integer below 2^53 is
\* a float64, from 2^53 on only the even ones are, and an odd one is rounded
\* to the neighbour whose mantissa is even (a multiple of 4)
ToFloat64(w) ==
    IF w[1] < 2 ^ 26 \/ w[2] % 2 = 0 THEN w
    ELSE IF (w[2] - 1) % 4 = 0 THEN <<w[1], w[2] - 1>>
    ELSE IF w[2] + 1 = Limb THEN <<w[1] + 1, 0>>
    ELSE <<w[1], w[2] + 1>>

\* the value an element of an integer array takes in an array of dtype dt
\* that np.result_type chose: exact in an integer dtype
ConvertTo(dt, w) == IF dt = "float64" THEN ToFloat64(w) ELSE w

\* a != 0, element-wise
NonZeroMask(a) == [i \in Indices(a.shape) |-> a.data[i] # WideZero]

\* mutant of n_overlap: the voxels of left are counted
n_overlap_of_left(lmask, rmask) == Cardinality({i \in DOMAIN lmask : lmask[i]})

\* n_overlap = int((lmask & rmask).sum())
n_overlap(lmask, rmask) == Cardinality({i \in DOMAIN lmask : lmask[i] /\ rmask[i]})

\* np.where(cond, x, y): a new array of the result type of x and y
where(cond, x, y) ==
    [shape |-> x.shape, dtype |-> result_type(x.dtype, y.dtype),
     data |-> [i \in Indices(x.shape) |->
                  ConvertTo(result_type(x.dtype, y.dtype),
                            IF cond[i] THEN x.data[i] ELSE y.data[i])]]

MsgShapes == "Shapes must match."
MsgIntegers == "Inputs should be integer label images."

MsgOverlap(n) == "Left/right overlap at " \o ToString(n) \o " voxels."

\* mutant of combine_hemispheres: the dtype check comes first
combine_hemispheres_dtype_first(l, r) ==
    IF ~IsInteger(l.dtype) \/ ~IsInteger(r.dtype) THEN Raise("TypeError", MsgIntegers)
    ELSE IF l.shape # r.shape THEN Raise("ValueError", MsgShapes)
    ELSE IF n_overlap(NonZeroMask(l), NonZeroMask(r)) # 0
         THEN Raise("ValueError", MsgOverlap(n_overlap(NonZeroMask(l), NonZeroMask(r))))
    ELSE Ok(where(NonZeroMask(l), l, r))

\* the function: shape check, dtype check, overlap count, np.where
combine_hemispheres(l, r) ==
    IF l.shape # r.shape THEN Raise("ValueError", MsgShapes)
    ELSE IF ~IsInteger(l.dtype) \/ ~IsInteger(r.dtype) THEN Raise("TypeError", MsgIntegers)
    ELSE IF n_overlap(NonZeroMask(l), NonZeroMask(r)) # 0
         THEN Raise("ValueError", MsgOverlap(n_overlap(NonZeroMask(l), NonZeroMask(r))))
    ELSE Ok(where(NonZeroMask(l), l, r))

(***************************************************************************)
(* relabel_nifti and relabel_nifti_to_meta_structure                       *)
(*                                                                         *)
(* img.get_fdata() is a float64 array.  An element is [fin, twice]: the    *)
(* finite value twice / 2 (the integers and the halves between them), or a *)
(* non-finite value (nan, inf).                                            *)
(***************************************************************************)
Float(x) == [fin |-> TRUE, twice |-> 2 * x]

HalfAbove(x) == [fin |-> TRUE, twice |-> 2 * x + 1]

NaN == [fin |-> FALSE, twice |-> 0]

Inf == [fin |-> FALSE, twice |-> 1]

\* np.isfinite
isfinite(x) == x.fin

\* np.round of a finite value: the nearest integer, a half goes to the even one
round(x) ==
    IF x.twice % 2 = 0 THEN x
    ELSE LET below == (x.twice - 1) \div 2
         IN  Float(IF below % 2 = 0 THEN below ELSE below + 1)

\* np.all(np.isfinite(data))
AllFinite(a) == \A i \in Indices(a.shape) : isfinite(a.data[i])

\* np.all(np.equal(data, np.round(data))), for finite data
AllIntegerValued(a) == \A i \in Indices(a.shape) : a.data[i] = round(a.data[i])

\* data.astype(np.int64), for finite integer-valued data
astype_int64(a) ==
    [shape |-> a.shape, dtype |-> "int64",
     data |-> [i \in Indices(a.shape) |-> a.data[i].twice \div 2]]

MsgNonFinite == "Input NIfTI contains non-finite values."
MsgNotInteger == "Input NIfTI is not an integer label map."
MsgNoBackground == "Expected background label 0, but 0 is missing."

\* the least element of a non-empty set of integers
MinOf(S) == CHOOSE m \in S : \A x \in S : m <= x

MaxOf(S) == CHOOSE m \in S : \A x \in S : m >= x

\* the elements of a set of integers in ascending order
RECURSIVE SortAsc(_)
SortAsc(S) == IF S = {} THEN <<>> ELSE <<MinOf(S)>> \o SortAsc(S \ {MinOf(S)})

\* np.unique(data): the distinct values, ascending
unique(d) == SortAsc({d.data[i] : i \in Indices(d.shape)})

IsForeground(label) == label # 0

\* the foreground labels numbered from the largest down
relabel_map_descending(labels) ==
    <<<<0, 0>>>> \o [k \in 1..Len(SelectSeq(labels, IsForeground)) |->
                        <<SelectSeq(labels, IsForeground)[k],
                          Len(SelectSeq(labels, IsForeground)) + 1 - k>>]

\* relabel_map = {0: 0} and, for the foreground labels in ascending order,
\* old_label -> 1, 2, ...: the items of the dict in insertion order
relabel_map(labels) ==
    <<<<0, 0>>>> \o [k \in 1..Len(SelectSeq(labels, IsForeground)) |->
                        <<SelectSeq(labels, IsForeground)[k], k>>]

\* the passes on the array they read: relabeled[relabeled == old_label] =
\* new_label on a copy of data
RECURSIVE ApplyPassesInPlace(_, _, _)
ApplyPassesInPlace(relabeled, d, items) ==
    IF items = <<>> THEN d
    ELSE ApplyPassesInPlace(relabeled,
                            [i \in DOMAIN d |-> IF d[i] = Head(items)[1] THEN Head(items)[2] ELSE d[i]],
                            Tail(items))

\* for old_label, new_label in relabel_map.items():
\*     relabeled[data == old_label] = new_label
RECURSIVE ApplyPasses(_, _, _)
ApplyPasses(relabeled, d, items) ==
    IF items = <<>> THEN relabeled
    ELSE ApplyPasses([i \in DOMAIN relabeled |->
                         IF d[i] = Head(items)[1] THEN Head(items)[2] ELSE relabeled[i]],
                     d, Tail(items))

\* labels[0] != 0, for the ascending labels
background_missing(labels) == labels[1] # 0

\* mutant of relabel_nifti: the integer check comes before the finite check
relabel_nifti_integer_check_first(img) ==
    IF ~(\A i \in Indices(img.shape) : img.data[i].fin => img.data[i] = round(img.data[i]))
        THEN Raise("ValueError", MsgNotInteger)
    ELSE IF ~AllFinite(img) THEN Raise("ValueError", MsgNonFinite)
    ELSE IF background_missing(unique(astype_int64(img)))
        THEN Raise("ValueError", MsgNoBackground)
    ELSE Ok([shape |-> img.shape, dtype |-> "int32",
             data |-> ApplyPasses([i \in Indices(img.shape) |-> 0], astype_int64(img).data,
                                  relabel_map(unique(astype_int64(img))))])

\* the function, from the loaded image to the image it saves: the two
\* checks, the labels, the map, the passes, the int32 output
relabel_nifti(img) ==
    IF ~AllFinite(img) THEN Raise("ValueError", MsgNonFinite)
    ELSE IF ~AllIntegerValued(img) THEN Raise("ValueError", MsgNotInteger)
    ELSE IF background_missing(unique(astype_int64(img)))
        THEN Raise("ValueError", MsgNoBackground)
    ELSE Ok([shape |-> img.shape, dtype |-> "int32",
             data |-> ApplyPasses([i \in Indices(img.shape) |-> 0], astype_int64(img).data,
                                  relabel_map(unique(astype_int64(img))))])

\* _assert_integer_labelmap: the outcome is the int64 array or an error
assert_integer_labelmap(img) ==
    IF ~AllFinite(img) THEN Raise("ValueError", MsgNonFinite)
    ELSE IF ~AllIntegerValued(img) THEN Raise("ValueError", MsgNotInteger)
    ELSE Ok(astype_int64(img))

(***************************************************************************)
(* The lookup table.  A string is the sequence of its code points; a       *)
(* Structure cell is [na, chars], na for a cell pandas read as missing.    *)
(***************************************************************************)
Space == 32

RECURSIVE StripLeft(_)
StripLeft(cs) == IF cs # <<>> /\ Head(cs) = Space THEN StripLeft(Tail(cs)) ELSE cs

RECURSIVE StripRight(_)
StripRight(cs) ==
    IF cs # <<>> /\ cs[Len(cs)] = Space THEN StripRight(SubSeq(cs, 1, Len(cs) - 1)) ELSE cs

\* str.strip()
strip(cs) == StripLeft(StripRight(cs))

\* the order of Python strings: by the first code point that differs, a
\* proper prefix first
RECURSIVE LessStr(_, _)
LessStr(a, b) ==
    IF b = <<>> THEN FALSE
    ELSE IF a = <<>> THEN TRUE
    ELSE IF Head(a) # Head(b) THEN Head(a) < Head(b)
    ELSE LessStr(Tail(a), Tail(b))

\* sorted(S) for a set of strings
RECURSIVE SortStr(_)
SortStr(S) ==
    IF S = {} THEN <<>>
    ELSE LET m == CHOOSE x \in S : \A y \in S \ {x} : LessStr(x, y)
         IN  <<m>> \o SortStr(S \ {m})

\* keep = structures.notna() alone
keep_not_na(row) == ~row.Structure.na

\* keep = structures.notna() & (structures.str.strip() != "")
keep(row) == ~row.Structure.na /\ strip(row.Structure.chars) # <<>>

\* d[key] = value on a dict held as its items in insertion order: a key
\* that is present keeps its place
DictSet(d, key, value) ==
    IF \E k \in 1..Len(d) : d[k][1] = key
    THEN [k \in 1..Len(d) |-> IF d[k][1] = key THEN <<key, value>> ELSE d[k]]
    ELSE Append(d, <<key, value>>)

\* dict(zip(ids, structures)) over the kept rows, the Structure stripped
RECURSIVE DictOfRows(_, _)
DictOfRows(d, rows) ==
    IF rows = <<>> THEN d
    ELSE DictOfRows(DictSet(d, Head(rows).id, strip(Head(rows).Structure.chars)), Tail(rows))

IsNotZeroKey(item) == item[1] # 0

\* _load_id_to_structure_map, from the rows of the table that was read:
\* drop the rows without a Structure, build the dict, pop the id 0
load_id_to_structure_map(rows) ==
    SelectSeq(DictOfRows(<<>>, SelectSeq(rows, keep)), IsNotZeroKey)

\* unique_structures = sorted(set(id_to_structure.values()))
unique_structures(id_to_structure) ==
    SortStr({id_to_structure[k][2] : k \in 1..Len(id_to_structure)})

\* structure_to_new_id[s]: the place of s in unique_structures, from 1
structure_to_new_id(id_to_structure, s) ==
    CHOOSE n \in 1..Len(unique_structures(id_to_structure)) :
        unique_structures(id_to_structure)[n] = s

\* old_id_to_new_id, the items in the order of id_to_structure
old_id_to_new_id(id_to_structure) ==
    [k \in 1..Len(id_to_structure) |->
        <<id_to_structure[k][1], structure_to_new_id(id_to_structure, id_to_structure[k][2])>>]

\* the list of ids as Python prints it
RECURSIVE JoinIds(_)
JoinIds(ids) ==
    IF ids = <<>> THEN ""
    ELSE IF Len(ids) = 1 THEN ToString(ids[1])
    ELSE ToString(ids[1]) \o ", " \o JoinIds(Tail(ids))

MaxListed == 20

MsgNoTable == "Label table not found: "
MsgNegativeDimensions == "negative dimensions are not allowed"
MsgIndex == "index out of bounds"

MsgUnknown(unknown) ==
    "Found label IDs in the NIfTI that are not mapped to a meta Structure in the table: ["
    \o JoinIds(SubSeq(unknown, 1, IF Len(unknown) > MaxListed THEN MaxListed ELSE Len(unknown)))
    \o "]" \o (IF Len(unknown) > MaxListed THEN " ..." ELSE "")

\* for old_id, new_id in old_id_to_new_id.items():
\*     if old_id <= max_id: lut[old_id] = np.int32(new_id)
\* on lut = np.zeros(max_id + 1): a negative old_id counts from the end of
\* lut, and is an IndexError when lut is shorter.  The outcome is
\* [ok, lut], lut a function on 0..max_id
RECURSIVE FillLut(_, _, _)
FillLut(lut, items, max_id) ==
    IF items = <<>> THEN [ok |-> TRUE, lut |-> lut]
    ELSE LET old_id == Head(items)[1]
             new_id == Head(items)[2]
             at == IF old_id < 0 THEN old_id + max_id + 1 ELSE old_id
         IN  IF old_id > max_id THEN FillLut(lut, Tail(items), max_id)
             ELSE IF at < 0 THEN [ok |-> FALSE, lut |-> lut]
             ELSE FillLut([lut EXCEPT ![at] = new_id], Tail(items), max_id)

\* the values of the volume that are not 0
PresentFg(d) == {d.data[i] : i \in Indices(d.shape)} \ {0}

\* the part of relabel_nifti_to_meta_structure after the table and the
\* volume were read: the check for unknown ids, the lut, the gather
apply_mapping(d, o2n) ==
    LET present_fg == PresentFg(d)
        known_set == {o2n[k][1] : k \in 1..Len(o2n)}
        unknown == SortAsc(present_fg \ known_set)
        max_id == IF present_fg # {} THEN MaxOf(present_fg) ELSE 0
        filled == FillLut([x \in 0..max_id |-> 0], o2n, max_id)
    IN  IF unknown # <<>> THEN Raise("ValueError", MsgUnknown(unknown))
        ELSE IF max_id + 1 < 0 THEN Raise("ValueError", MsgNegativeDimensions)
        ELSE IF ~filled.ok THEN Raise("IndexError", MsgIndex)
        ELSE Ok([shape |-> d.shape, dtype |-> "int32",
                 data |-> [i \in Indices(d.shape) |->
                              IF max_id > 0 /\ d.data[i] > 0 /\ d.data[i] <= max_id
                              THEN filled.lut[d.data[i]] ELSE 0]])

\* the function, from the loaded image and table to the image it saves
relabel_nifti_to_meta_structure(img, tbl) ==
    IF ~tbl.exists THEN Raise("FileNotFoundError", MsgNoTable)
    ELSE IF assert_integer_labelmap(img).kind = "error" THEN assert_integer_labelmap(img)
    ELSE apply_mapping(assert_integer_labelmap(img).arr,
                       old_id_to_new_id(load_id_to_structure_map(tbl.rows)))

(***************************************************************************)
(* The arrays a call reads and writes.  An array lives in a buffer: that   *)
(* of an argument, or a new one.                                           *)
(***************************************************************************)
\* mutant of subsegmented_arr_buffer: the output is built in seed_labels
subsegmented_arr_in_seed_labels == "seed_labels"

\* subsegmented_arr = np.zeros_like(...) is a new array; the masked
\* assignment, the only store of the function, writes into it
subsegmented_arr_buffer == "fresh"

\* mutant of combined_buffer: the output is built in left
combined_in_left == "left"

\* combined = np.where(...) is a new array; the function stores nothing else
combined_buffer == "fresh"

\* the buffer of the returned array, none when the call raised
ReturnedIn(r, buffer) == IF r.kind = "ok" THEN buffer ELSE "none"

\* the argument named name after a call that returned r, built in buffer
ArgAfter(name, arg, r, buffer) == IF r.kind = "ok" /\ buffer = name THEN r.arr ELSE arg

(***************************************************************************)
(* The arguments of a call.                                                *)
(***************************************************************************)
\* the 1-D and 2-D shapes of at most MaxVoxels voxels, and the 3-D shape of
\* the smallest volume with two voxels along every axis
Shapes1D == {<<n>> : n \in 1..MaxSide}

Shapes2D == {s \in {<<r, c>> : r \in 1..MaxSide, c \in 1..MaxSide} : s[1] * s[2] <= MaxVoxels}

Shapes3D == {<<2, 2, 2>>}

None == [given |-> FALSE, val |-> <<>>]

Given(seq) == [given |-> TRUE, val |-> seq]

\* spacing arguments for arrays of the given rank: None; voxel size 1 along
\* every axis, or 2 along one of them; the malformed 0 or -1 along one axis;
\* and sequences that are one entry short or long
Spacings(rank) ==
    {None, Given([k \in 1..rank |-> 1])}
    \cup {Given([k \in 1..rank |-> IF k = d THEN e ELSE 1]) : d \in 1..rank, e \in {2, 0, -1}}
    \cup {Given([k \in 1..(rank - 1) |-> 1]), Given([k \in 1..(rank + 1) |-> 1])}

NoDtype == [form |-> "None", name |-> ""]

\* dtype_out arguments: a scalar type (np.uint8), a np.dtype instance, a name
DtypeOuts ==
    {[form |-> "type", name |-> "uint8"], [form |-> "type", name |-> "int32"],
     [form |-> "dtype", name |-> "uint8"], [form |-> "str", name |-> "uint8"]}

\* int32 label volumes of the shape with at most MaxSeeds seed voxels, labelled from labs
SeedArrays(shape, labs) ==
    LET supports == {S \in SUBSET Indices(shape) : Cardinality(S) <= MaxSeeds}
    IN  UNION {{MkArray(shape, "int32", [i \in Indices(shape) |-> IF i \in S THEN lab[i] ELSE 0]) :
                    lab \in [S -> labs]} : S \in supports}

Support(a) == {i \in Indices(a.shape) : a.data[i] # 0}

MaskOf(shape, S) ==
    MkArray(shape, "int32", [i \in Indices(shape) |-> IF i \in S THEN 1 ELSE 0])

\* masks for a seed volume: empty, full, the seed voxels, all but the seed
\* voxels, and the voxels with an even coordinate sum
Masks(sl) ==
    {MaskOf(sl.shape, S) :
        S \in {{}, Indices(sl.shape), Support(sl), Indices(sl.shape) \ Support(sl),
               {i \in Indices(sl.shape) : (i[1] + i[Len(i)]) % 2 = 0}}}

\* calls whose arguments have one 2-D or 3-D shape, dtype_out left out
InitSpacing ==
    \E shape \in Shapes2D \cup Shapes3D :
        /\ seed_labels \in SeedArrays(shape, {1, 2})
        /\ to_subdivide \in Masks(seed_labels)
        /\ spacing \in Spacings(Rank(shape))
        /\ dtype_out = NoDtype

\* calls with dtype_out given, spacing left out; label 256 does not fit uint8
InitDtype ==
    \E shape \in Shapes2D :
        /\ seed_labels \in SeedArrays(shape, {2, 256})
        /\ to_subdivide \in Masks(seed_labels)
        /\ spacing = None
        /\ dtype_out \in DtypeOuts

\* calls with 1-D arguments or arguments of two shapes
InitShapes ==
    \E s1 \in Shapes1D \cup Shapes2D, s2 \in Shapes1D \cup Shapes2D :
        /\ s1 # s2 \/ Rank(s1) < 2
        /\ to_subdivide \in {MaskOf(s1, {}), MaskOf(s1, Indices(s1))}
        /\ seed_labels \in {MaskOf(s2, {}), MaskOf(s2, Indices(s2))}
        /\ spacing \in {None, Given(<<1, 1>>)}
        /\ dtype_out = NoDtype

\* the shapes of the arguments of combine_hemispheres
CombineShapes == {<<1, 2>>, <<2, 2>>}

\* 2^53 + 1, the least positive integer that is no float64
Big == <<2 ^ 26, 1>>

\* values an array of the dtype holds in the model
ValuesOf(dt) ==
    IF dt = "bool" THEN {Wide(0), Wide(1)}
    ELSE IF dt \in {"int64", "uint64"} THEN {Wide(0), Wide(1), Wide(2), Big}
    ELSE {Wide(0), Wide(1), Wide(2)}

WideArrays(shape, dt) ==
    {[shape |-> shape, dtype |-> dt, data |-> d] : d \in [Indices(shape) -> ValuesOf(dt)]}

\* the arrays of the shape and dtype whose voxels all hold one value
ConstantArrays(shape, dt) ==
    {[shape |-> shape, dtype |-> dt, data |-> [i \in Indices(shape) |-> w]] : w \in {Wide(0), Wide(1)}}

\* calls with two integer arrays of two voxels, of every pair of dtypes
InitCombineDtypes ==
    \E dl \in {"int8", "uint8", "int32", "int64", "uint64"},
       dr \in {"int8", "uint8", "int32", "int64", "uint64"} :
        /\ left \in WideArrays(<<1, 2>>, dl)
        /\ right \in WideArrays(<<1, 2>>, dr)

\* calls with two int32 arrays of one shape, as the pipeline makes them
InitCombineInt32 ==
    \E shape \in CombineShapes :
        /\ left \in WideArrays(shape, "int32")
        /\ right \in WideArrays(shape, "int32")

\* calls with arrays of two shapes or with an array that is not of an integer dtype
InitCombineRejected ==
    \E s1 \in CombineShapes \cup {<<2>>}, s2 \in CombineShapes \cup {<<2>>},
       dl \in {"int32", "float64", "bool"}, dr \in {"int32", "float64", "bool"} :
        /\ s1 # s2 \/ ~IsInteger(dl) \/ ~IsInteger(dr)
        /\ left \in ConstantArrays(s1, dl)
        /\ right \in ConstantArrays(s2, dr)

(***************************************************************************)
(* The white-matter scripts (src/scripts/h_subsegment_white_matter.py and  *)
(* src/scripts/j_subsegment_ch2_example.py).  File names are sequences of  *)
(* code points; the directory maps the name of an entry to the entry.      *)
(***************************************************************************)
\* SUFFIX_LABEL_MAP: "_MP2RAGE_synthseg_labels.nii.gz" in the script h,
\* "_synthseg_labels.nii.gz" in the script j
SUFFIX_LABEL_MAP(s) ==
    IF s = "h"
    THEN <<95, 77, 80, 50, 82, 65, 71, 69, 95, 115, 121, 110, 116, 104, 115, 101, 103,
           95, 108, 97, 98, 101, 108, 115, 46, 110, 105, 105, 46, 103, 122>>
    ELSE <<95, 115, 121, 110, 116, 104, 115, 101, 103,
           95, 108, 97, 98, 101, 108, 115, 46, 110, 105, 105, 46, 103, 122>>

\* an output suffix that ends with the label-map suffix: "_WM" before it
SUFFIX_LABEL_OUTPUT_on_label_map(s) == <<95, 87, 77>> \o SUFFIX_LABEL_MAP(s)

\* SUFFIX_LABEL_OUTPUT: "_MP2RAGE_WM_voronoi_labels.nii.gz" in the script h,
\* "_WM_voronoi_labels.nii.gz" in the script j
SUFFIX_LABEL_OUTPUT(s) ==
    IF s = "h"
    THEN <<95, 77, 80, 50, 82, 65, 71, 69, 95, 87, 77, 95, 118, 111, 114, 111, 110, 111, 105,
           95, 108, 97, 98, 101, 108, 115, 46, 110, 105, 105, 46, 103, 122>>
    ELSE <<95, 87, 77, 95, 118, 111, 114, 111, 110, 111, 105,
           95, 108, 97, 98, 101, 108, 115, 46, 110, 105, 105, 46, 103, 122>>

\* sub in s, for two strings
contains(s, sub) ==
    \E i \in 1..(Len(s) - Len(sub) + 1) : SubSeq(s, i, i + Len(sub) - 1) = sub

\* s.replace(old, new): every occurrence of old, from the left, none
\* overlapping another
RECURSIVE replace(_, _, _)
replace(s, old, new) ==
    IF Len(s) < Len(old) THEN s
    ELSE IF SubSeq(s, 1, Len(old)) = old
         THEN new \o replace(SubSeq(s, Len(old) + 1, Len(s)), old, new)
    ELSE <<Head(s)>> \o replace(Tail(s), old, new)

\* file.is_file() and SUFFIX_LABEL_MAP in file.name
selected(s, name, entry) == entry.is_file /\ contains(name, SUFFIX_LABEL_MAP(s))

\* output_filename = file.name.replace(SUFFIX_LABEL_MAP, SUFFIX_LABEL_OUTPUT)
output_filename(s, name) == replace(name, SUFFIX_LABEL_MAP(s), SUFFIX_LABEL_OUTPUT(s))

NON_REQUIRED_LABEL_STRUCTURES_VORONOI == {"White_Matter", "Cerebellum", "Brainstem", "Ventricle_CSF"}

REQUIRED_WM_LABELS_LEFT == {"Left-Cerebral-White-Matter"}

REQUIRED_WM_LABELS_RIGHT == {"Right-Cerebral-White-Matter"}

\* the rows of freesurfer_labelmap: the structures that are not required
\* and the background dropped
freesurfer_labelmap(full) ==
    {k \in 1..Len(full) :
        full[k].Structure \notin NON_REQUIRED_LABEL_STRUCTURES_VORONOI /\ full[k].Label # "Unknown"}

\* the ids of freesurfer_labelmap_left and freesurfer_labelmap_right
freesurfer_labelmap_left(full) ==
    {full[k].id : k \in {j \in freesurfer_labelmap(full) : full[j].Hemisphere # "Right"}}

freesurfer_labelmap_right(full) ==
    {full[k].id : k \in {j \in freesurfer_labelmap(full) : full[j].Hemisphere # "Left"}}

\* the white-matter ids of both hemispheres
freesurfer_labelmap_wm_both(full) ==
    {full[k].id : k \in {j \in 1..Len(full) :
        full[j].Label \in REQUIRED_WM_LABELS_LEFT \cup REQUIRED_WM_LABELS_RIGHT}}

\* the ids of freesurfer_labelmap_wm_left and freesurfer_labelmap_wm_right
freesurfer_labelmap_wm_left(full) ==
    {full[k].id : k \in {j \in 1..Len(full) : full[j].Label \in REQUIRED_WM_LABELS_LEFT}}

freesurfer_labelmap_wm_right(full) ==
    {full[k].id : k \in {j \in 1..Len(full) : full[j].Label \in REQUIRED_WM_LABELS_RIGHT}}

\* np.where(np.isin(data, labels_to_keep), data, 0)
where_isin(d, labels_to_keep) ==
    [shape |-> d.shape, dtype |-> d.dtype,
     data |-> [v \in Indices(d.shape) |-> IF d.data[v] \in labels_to_keep THEN d.data[v] ELSE 0]]

\* an int32 array as an argument of combine_hemispheres
AsWide(a) == [shape |-> a.shape, dtype |-> a.dtype, data |-> [v \in Indices(a.shape) |-> Wide(a.data[v])]]

Int32Type == [form |-> "type", name |-> "int32"]

MsgNoImage == "Cannot work out file type"

\* the two calls of voronoi_subparcellate for the image of a file
segm_left(full, img) ==
    voronoi_subparcellate(where_isin(img.data, freesurfer_labelmap_wm_left(full)),
                          where_isin(img.data, freesurfer_labelmap_left(full)),
                          Given(img.zooms), Int32Type)

segm_right(full, img) ==
    voronoi_subparcellate(where_isin(img.data, freesurfer_labelmap_wm_right(full)),
                          where_isin(img.data, freesurfer_labelmap_right(full)),
                          Given(img.zooms), Int32Type)

\* the body of the loop for a selected file, up to the array it saves: the
\* outcome is that array or the first exception
subsegment(full, entry) ==
    IF ~entry.image THEN Raise("ImageFileError", MsgNoImage)
    ELSE IF segm_left(full, entry).kind = "error" THEN segm_left(full, entry)
    ELSE IF segm_right(full, entry).kind = "error" THEN segm_right(full, entry)
    ELSE combine_hemispheres(AsWide(segm_left(full, entry).arr), AsWide(segm_right(full, entry).arr))

\* the array of combine_hemispheres as the int32 image that is saved
AsInt32(a) ==
    [shape |-> a.shape, dtype |-> "int32",
     data |-> [v \in Indices(a.shape) |-> a.data[v][1] * Limb + a.data[v][2]]]

\* the entries of a directory: an image file with its voxels and zooms, a
\* file that is no image, a sub-directory
ImageFile(d, zooms) == [is_file |-> TRUE, image |-> TRUE, data |-> d, zooms |-> zooms]

OtherFile == [is_file |-> TRUE, image |-> FALSE, data |-> NoArray, zooms |-> <<>>]

SubDirectory == [is_file |-> FALSE, image |-> FALSE, data |-> NoArray, zooms |-> <<>>]

\* the directory after nib.save(new_nifti, str(output_path))
saved(dir, name, entry) ==
    [n \in DOMAIN dir \cup {name} |-> IF n = name THEN entry ELSE dir[n]]

MsgDone(s, n) ==
    IF s = "h" THEN "Done. Subparcellated " \o ToString(n) \o " files."
    ELSE "Done. Subparcellated ch2."

MsgIsADirectory == "Is a directory"

\* no script runs
NoPipeline ==
    /\ script = "none"
    /\ freesurfer_labelmap_full = <<>>
    /\ directory = <<>>
    /\ pending = {}
    /\ file = <<>>
    /\ voronoi_segm_left = NoArray
    /\ voronoi_segm_right = NoArray
    /\ voronoi_segm_wholebrain = NoArray
    /\ raised = NoResult
    /\ count = 0
    /\ printed = ""

\* no call has been made
NotCalled ==
    /\ result = NoResult
    /\ combined = NoResult
    /\ returned_in = "none"
    /\ again = NoResult
    /\ written = NoResult
    /\ NoPipeline

\* the arguments of the function that is not called
NoVoronoiArgs ==
    /\ to_subdivide = NoArray
    /\ seed_labels = NoArray
    /\ spacing = None
    /\ dtype_out = NoDtype

NoCombineArgs ==
    /\ left = NoArray
    /\ right = NoArray

\* the volumes of relabel_nifti: four voxels holding labels, among them a
\* negative one, a half, nan and inf
RelabelValues ==
    {Float(0), Float(2), Float(3), Float(5), Float(1000), Float(1001), Float(-1),
     HalfAbove(0), NaN, Inf}

Volumes(shape, values) ==
    {[shape |-> shape, dtype |-> "float64", data |-> d] : d \in [Indices(shape) -> values]}

\* the cells of the Structure column: a name, a name with blanks around it,
\* a blank cell, a missing cell
Str(cs) == [na |-> FALSE, chars |-> cs]

NaCell == [na |-> TRUE, chars |-> <<>>]

NameA == <<65>>

NameB == <<66>>

Row(id, cell) == [id |-> id, Structure |-> cell]

NoTable == [exists |-> FALSE, rows |-> <<>>]

Table(rows) == [exists |-> TRUE, rows |-> rows]

\* the rows of the generated tables, and the tables of at most MaxRows rows
TableRows ==
    {Row(id, cell) : id \in {-1, 0, 1, 2}, cell \in {Str(NameA), Str(NameB), Str(<<Space>>), NaCell}}

Tables == UNION {{Table(rows) : rows \in [1..n -> TableRows]} : n \in 0..MaxRows}

\* the table {1: A, 2: A, 3: B}, the same with its rows in another order and
\* blanks around a name, a table with a row for the id 0, and a table that
\* names an id twice
ExampleTables ==
    {Table(<<Row(1, Str(NameA)), Row(2, Str(NameA)), Row(3, Str(NameB))>>),
     Table(<<Row(3, Str(NameB)), Row(2, Str(<<Space>> \o NameA \o <<Space>>)), Row(1, Str(NameA))>>),
     Table(<<Row(0, Str(NameA)), Row(1, Str(NameB)), Row(2, Str(NameB))>>),
     Table(<<Row(1, Str(NameA)), Row(1, Str(<<67>>)), Row(2, Str(NameB))>>)}

NoRelabelArgs ==
    /\ data = NoArray
    /\ table = NoTable

\* calls of relabel_nifti
InitRelabel ==
    /\ pc = "relabel"
    /\ NotCalled
    /\ NoVoronoiArgs
    /\ NoCombineArgs
    /\ table = NoTable
    /\ data \in Volumes(<<2, 2>>, RelabelValues)

\* calls of relabel_nifti_to_meta_structure: a generated table and a volume
\* of two voxels; an example table and a volume of three voxels; a volume
\* with a malformed voxel and a table that may be missing; a volume of
\* about 20 ids
InitMetaTables ==
    /\ table \in Tables
    /\ data \in Volumes(<<1, 2>>, {Float(0), Float(1), Float(2), Float(-1)})

InitMetaExample ==
    /\ table \in ExampleTables
    /\ data \in Volumes(<<1, 3>>, {Float(0), Float(1), Float(2), Float(3), Float(4)})

InitMetaMalformed ==
    /\ table \in ExampleTables \cup {NoTable, Table(<<>>)}
    /\ data \in Volumes(<<1, 2>>, {Float(0), Float(1), Float(4), HalfAbove(1), NaN, Inf})

\* a volume of 27 voxels that holds the ids 1..n, one voxel each, and 0
ManyIds(n) ==
    [shape |-> <<3, 3, 3>>, dtype |-> "float64",
     data |-> [i \in Indices(<<3, 3, 3>>) |->
                  IF 9 * i[1] + 3 * i[2] + i[3] < n
                  THEN Float(9 * i[1] + 3 * i[2] + i[3] + 1) ELSE Float(0)]]

\* calls with a volume of 19 to 22 ids and a table that names none of
\* them, or the first three at most
InitMetaManyIds ==
    /\ table \in ExampleTables \cup {Table(<<>>)}
    /\ data \in {ManyIds(n) : n \in 19..22}

InitMeta ==
    /\ pc = "meta"
    /\ NotCalled
    /\ NoVoronoiArgs
    /\ NoCombineArgs
    /\ InitMetaMalformed \/ InitMetaExample \/ InitMetaTables \/ InitMetaManyIds

\* the rows of g_fetch_freesurfer_labelmap.csv for the labels of the
\* volumes: the background, the white matter of the two hemispheres, a
\* structure of each hemisphere, a structure without a hemisphere, the
\* brainstem; and the same table with no Structure for the white matter
LabelRow(id, label, structure, hemisphere) ==
    [id |-> id, Label |-> label, Structure |-> structure, Hemisphere |-> hemisphere]

LabelMap(wm) ==
    <<LabelRow(0, "Unknown", "nan", "None"),
      LabelRow(2, "Left-Cerebral-White-Matter", wm, "Left"),
      LabelRow(41, "Right-Cerebral-White-Matter", wm, "Right"),
      LabelRow(10, "Left-Thalamus", "Thalamus", "Left"),
      LabelRow(49, "Right-Thalamus", "Thalamus", "Right"),
      LabelRow(85, "Optic-Chiasm", "Optic_Chiasm", "None"),
      LabelRow(16, "Brain-Stem", "Brainstem", "None")>>

LabelMaps == {LabelMap("White_Matter"), LabelMap("nan")}

\* the names of the entries: a stem, then a suffix
NameOf(stem, suffix) == <<stem>> \o suffix

LabelValues == {0, 2, 41, 10, 49, 85}

LabelVolumes(shape) ==
    {[shape |-> shape, dtype |-> "int32", data |-> d] : d \in [Indices(shape) -> LabelValues]}

\* a volume with white matter and a structure in each hemisphere, and one
\* without white matter in the right hemisphere
BothHemispheres ==
    [shape |-> <<2, 2>>, dtype |-> "int32",
     data |-> [v \in Indices(<<2, 2>>) |-> <<10, 2, 41, 49>>[2 * v[1] + v[2] + 1]]]

LeftOnly ==
    [shape |-> <<2, 2>>, dtype |-> "int32",
     data |-> [v \in Indices(<<2, 2>>) |-> <<10, 2, 0, 49>>[2 * v[1] + v[2] + 1]]]

\* nothing has run
PipelineStart ==
    /\ pc = "pipeline"
    /\ result = NoResult /\ combined = NoResult /\ returned_in = "none"
    /\ again = NoResult /\ written = NoResult
    /\ NoVoronoiArgs /\ NoCombineArgs /\ NoRelabelArgs
    /\ pending = {}
    /\ file = <<>>
    /\ voronoi_segm_left = NoArray
    /\ voronoi_segm_right = NoArray
    /\ voronoi_segm_wholebrain = NoArray
    /\ raised = NoResult
    /\ count = 0
    /\ printed = ""

\* runs of the script h on a directory with one label-map file
InitPipelineVolumes ==
    /\ script = "h"
    /\ freesurfer_labelmap_full \in LabelMaps
    /\ \E d \in LabelVolumes(<<2, 2>>), zooms \in {<<1, 1>>, <<1, 2>>} :
          directory = (NameOf(97, SUFFIX_LABEL_MAP("h")) :> ImageFile(d, zooms))

\* the entries a directory may hold: label-map files of the script h with
\* one of the two volumes; an output of an earlier run; a label-map file of
\* the script j only; a file that is no image and a sub-directory whose
\* names hold the suffix; files whose names hold the suffix twice, the
\* suffix after a part of it, and the two suffixes in either order
DirectoryEntries ==
    {<<NameOf(97, SUFFIX_LABEL_MAP("h")), ImageFile(BothHemispheres, <<1, 1>>)>>,
     <<NameOf(97, SUFFIX_LABEL_MAP("h")), ImageFile(LeftOnly, <<1, 1>>)>>,
     <<NameOf(98, SUFFIX_LABEL_MAP("h")), ImageFile(BothHemispheres, <<1, 1>>)>>,
     <<NameOf(98, SUFFIX_LABEL_MAP("h")), ImageFile(LeftOnly, <<1, 1>>)>>,
     <<NameOf(97, SUFFIX_LABEL_OUTPUT("h")), ImageFile(BothHemispheres, <<1, 1>>)>>,
     <<NameOf(99, SUFFIX_LABEL_MAP("j")), ImageFile(BothHemispheres, <<1, 1>>)>>,
     <<NameOf(100, SUFFIX_LABEL_MAP("h") \o <<46, 116, 120, 116>>), OtherFile>>,
     <<NameOf(101, SUFFIX_LABEL_MAP("h")), SubDirectory>>,
     <<NameOf(102, SUFFIX_LABEL_MAP("h") \o SUFFIX_LABEL_MAP("h")),
       ImageFile(BothHemispheres, <<1, 1>>)>>,
     <<NameOf(103, SubSeq(SUFFIX_LABEL_MAP("h"), 1, 8) \o SUFFIX_LABEL_MAP("h")),
       ImageFile(BothHemispheres, <<1, 1>>)>>,
     <<NameOf(104, SUFFIX_LABEL_MAP("h") \o SUFFIX_LABEL_OUTPUT("h")),
       ImageFile(BothHemispheres, <<1, 1>>)>>,
     <<NameOf(104, SUFFIX_LABEL_OUTPUT("h") \o SUFFIX_LABEL_MAP("h")),
       ImageFile(BothHemispheres, <<1, 1>>)>>}

\* the directories of at most MaxFiles entries
Directories ==
    {[n \in {e[1] : e \in S} |-> (CHOOSE e \in S : e[1] = n)[2]] :
        S \in {T \in SUBSET DirectoryEntries :
                  /\ Cardinality(T) <= MaxFiles
                  /\ \A e1, e2 \in T : e1[1] = e2[1] => e1 = e2}}

\* runs of the two scripts on a directory of several entries
InitPipelineDirectories ==
    /\ script \in {"h", "j"}
    /\ freesurfer_labelmap_full = LabelMap("White_Matter")
    /\ directory \in Directories

InitPipeline ==
    /\ PipelineStart
    /\ InitPipelineVolumes \/ InitPipelineDirectories

InitVoronoi ==
    /\ pc = "start"
    /\ NotCalled
    /\ NoCombineArgs
    /\ NoRelabelArgs
    /\ InitShapes \/ InitSpacing \/ InitDtype

InitCombine ==
    /\ pc = "combine"
    /\ NotCalled
    /\ NoVoronoiArgs
    /\ NoRelabelArgs
    /\ InitCombineRejected \/ InitCombineDtypes \/ InitCombineInt32

Init == InitVoronoi \/ InitCombine \/ InitRelabel \/ InitMeta \/ InitPipeline

\* one call of voronoi_subparcellate
CallVoronoi ==
    /\ pc = "start"
    /\ LET r == voronoi_subparcellate(to_subdivide, seed_labels, spacing, dtype_out)
       IN  /\ result' = r
           /\ returned_in' = ReturnedIn(r, subsegmented_arr_buffer)
           /\ to_subdivide' = ArgAfter("to_subdivide", to_subdivide, r, subsegmented_arr_buffer)
           /\ seed_labels' = ArgAfter("seed_labels", seed_labels, r, subsegmented_arr_buffer)
    /\ pc' = "done"
    /\ UNCHANGED <<spacing, dtype_out, left, right, combined, again, data, table, written>>
    /\ UNCHANGED pipeline_vars

\* a second call with the same argument objects
CallVoronoiAgain ==
    /\ pc = "done"
    /\ LET r == voronoi_subparcellate(to_subdivide, seed_labels, spacing, dtype_out)
       IN  /\ again' = r
           /\ to_subdivide' = ArgAfter("to_subdivide", to_subdivide, r, subsegmented_arr_buffer)
           /\ seed_labels' = ArgAfter("seed_labels", seed_labels, r, subsegmented_arr_buffer)
    /\ pc' = "repeated"
    /\ UNCHANGED <<spacing, dtype_out, result, returned_in, left, right, combined, data, table, written>>
    /\ UNCHANGED pipeline_vars

\* one call of combine_hemispheres
CallCombine ==
    /\ pc = "combine"
    /\ LET r == combine_hemispheres(left, right)
       IN  /\ combined' = r
           /\ returned_in' = ReturnedIn(r, combined_buffer)
           /\ left' = ArgAfter("left", left, r, combined_buffer)
           /\ right' = ArgAfter("right", right, r, combined_buffer)
    /\ pc' = "combine_done"
    /\ UNCHANGED <<to_subdivide, seed_labels, spacing, dtype_out, result, again, data, table, written>>
    /\ UNCHANGED pipeline_vars

\* a second call with the same argument objects
CallCombineAgain ==
    /\ pc = "combine_done"
    /\ LET r == combine_hemispheres(left, right)
       IN  /\ again' = r
           /\ left' = ArgAfter("left", left, r, combined_buffer)
           /\ right' = ArgAfter("right", right, r, combined_buffer)
    /\ pc' = "combine_repeated"
    /\ UNCHANGED <<to_subdivide, seed_labels, spacing, dtype_out, result, returned_in, combined, data, table, written>>
    /\ UNCHANGED pipeline_vars

\* a call of combine_hemispheres with the two arguments exchanged
CallCombineSwapped ==
    /\ pc = "combine_done"
    /\ LET r == combine_hemispheres(right, left)
       IN  /\ again' = r
           /\ left' = ArgAfter("right", left, r, combined_buffer)
           /\ right' = ArgAfter("left", right, r, combined_buffer)
    /\ pc' = "combine_swapped"
    /\ UNCHANGED <<to_subdivide, seed_labels, spacing, dtype_out, result, returned_in, combined, data, table, written>>
    /\ UNCHANGED pipeline_vars

\* one call of relabel_nifti: written is the image it saves, or its error
CallRelabel ==
    /\ pc = "relabel"
    /\ written' = relabel_nifti(data)
    /\ pc' = "relabel_done"
    /\ UNCHANGED <<to_subdivide, seed_labels, spacing, dtype_out, result, left, right,
                   combined, returned_in, again, data, table>>
    /\ UNCHANGED pipeline_vars

\* one call of relabel_nifti_to_meta_structure
CallMeta ==
    /\ pc = "meta"
    /\ written' = relabel_nifti_to_meta_structure(data, table)
    /\ pc' = "meta_done"
    /\ UNCHANGED <<to_subdivide, seed_labels, spacing, dtype_out, result, left, right,
                   combined, returned_in, again, data, table>>
    /\ UNCHANGED pipeline_vars

\* img.get_fdata() of a saved int32 image: the voxels as float64
get_fdata(arr) ==
    [shape |-> arr.shape, dtype |-> "float64",
     data |-> [v \in Indices(arr.shape) |-> Float(arr.data[v])]]

\* a call of relabel_nifti on the image the first call saved
CallRelabelOnOutput ==
    /\ pc = "relabel_done"
    /\ written.kind = "ok"
    /\ again' = relabel_nifti(get_fdata(written.arr))
    /\ pc' = "relabel_repeated"
    /\ UNCHANGED <<to_subdivide, seed_labels, spacing, dtype_out, result, left, right,
                   combined, returned_in, data, table, written>>
    /\ UNCHANGED pipeline_vars

\* the rows that can be added to the table of a call that succeeded: a row
\* with a name that id_to_structure holds already, for an id that is
\* neither in the table nor in the volume
AddedRows(d, tbl) ==
    {row \in TableRows :
        /\ keep(row)
        /\ \E k \in 1..Len(load_id_to_structure_map(tbl.rows)) :
              load_id_to_structure_map(tbl.rows)[k][2] = strip(row.Structure.chars)
        /\ \A k \in 1..Len(tbl.rows) : tbl.rows[k].id # row.id
        /\ \A v \in Indices(d.shape) : d.data[v] # Float(row.id)}

\* a second call of relabel_nifti_to_meta_structure on the same volume,
\* after a row was added at the head or at the end of the table
CallMetaWithAddedRow ==
    /\ pc = "meta_done"
    /\ written.kind = "ok"
    /\ \E row \in AddedRows(data, table) :
          \E rows \in {<<row>> \o table.rows, Append(table.rows, row)} :
              /\ table' = Table(rows)
              /\ again' = relabel_nifti_to_meta_structure(data, Table(rows))
    /\ pc' = "meta_extended"
    /\ UNCHANGED <<to_subdivide, seed_labels, spacing, dtype_out, result, left, right,
                   combined, returned_in, data, written>>
    /\ UNCHANGED pipeline_vars

\* an exception in the body of the loop is caught and the loop goes on
after_exception_continue == "loop"

\* no statement of the scripts catches an exception: the run ends with it
after_exception == "pipeline_failed"

\* for file in T1_SEGMENTED_DIR.iterdir(): the entries are listed once
ListDirectory ==
    /\ pc = "pipeline"
    /\ pending' = DOMAIN directory
    /\ pc' = "loop"
    /\ UNCHANGED <<to_subdivide, seed_labels, spacing, dtype_out, result, left, right,
                   combined, returned_in, again, data, table, written>>
    /\ UNCHANGED <<script, freesurfer_labelmap_full, directory, file, voronoi_segm_left,
                   voronoi_segm_right, voronoi_segm_wholebrain, raised, count, printed>>

\* the body of the loop for the next entry, in the order of the listing
\* (any order): an entry that is not selected is passed over; for a
\* selected file the two subparcellations, the combination and the save,
\* or the first exception, which ends the run
ProcessFile ==
    /\ pc = "loop"
    /\ \E name \in pending :
        LET entry == directory[name]
            l == segm_left(freesurfer_labelmap_full, entry)
            r == segm_right(freesurfer_labelmap_full, entry)
            whole == subsegment(freesurfer_labelmap_full, entry)
            output == output_filename(script, name)
            is_directory == output \in DOMAIN directory /\ ~directory[output].is_file
        IN  /\ file' = name
            /\ pending' = pending \ {name}
            /\ IF ~selected(script, name, entry)
               THEN /\ pc' = "loop"
                    /\ UNCHANGED <<directory, voronoi_segm_left, voronoi_segm_right,
                                   voronoi_segm_wholebrain, raised, count>>
               ELSE /\ voronoi_segm_left' =
                          IF entry.image /\ l.kind = "ok" THEN l.arr ELSE voronoi_segm_left
                    /\ voronoi_segm_right' =
                          IF entry.image /\ l.kind = "ok" /\ r.kind = "ok" THEN r.arr
                          ELSE voronoi_segm_right
                    /\ voronoi_segm_wholebrain' =
                          IF whole.kind = "ok" THEN whole.arr ELSE voronoi_segm_wholebrain
                    /\ IF whole.kind = "error" \/ is_directory
                       THEN /\ raised' = IF whole.kind = "error" THEN whole
                                         ELSE Raise("IsADirectoryError", MsgIsADirectory)
                            /\ pc' = after_exception
                            /\ UNCHANGED <<directory, count>>
                       ELSE /\ directory' = saved(directory, output,
                                                  ImageFile(AsInt32(whole.arr), entry.zooms))
                            /\ count' = IF script = "h" THEN count + 1 ELSE count
                            /\ pc' = "loop"
                            /\ UNCHANGED raised
    /\ UNCHANGED <<to_subdivide, seed_labels, spacing, dtype_out, result, left, right,
                   combined, returned_in, again, data, table, written>>
    /\ UNCHANGED <<script, freesurfer_labelmap_full, printed>>

\* print(f"Done. Subparcellated {count} files."), after the last entry
PrintDone ==
    /\ pc = "loop"
    /\ pending = {}
    /\ printed' = MsgDone(script, count)
    /\ pc' = "pipeline_done"
    /\ UNCHANGED <<to_subdivide, seed_labels, spacing, dtype_out, result, left, right,
                   combined, returned_in, again, data, table, written>>
    /\ UNCHANGED <<script, freesurfer_labelmap_full, directory, pending, file,
                   voronoi_segm_left, voronoi_segm_right, voronoi_segm_wholebrain,
                   raised, count>>

NextPipeline == ListDirectory \/ ProcessFile \/ PrintDone

NextVoronoi == CallVoronoi \/ CallVoronoiAgain

NextCombine == CallCombine \/ CallCombineAgain \/ CallCombineSwapped

NextRelabel == CallRelabel \/ CallRelabelOnOutput \/ CallMeta

Next ==
    \/ CallVoronoi
    \/ CallVoronoiAgain
    \/ CallCombine
    \/ CallCombineAgain
    \/ CallCombineSwapped
    \/ CallRelabel
    \/ CallRelabelOnOutput
    \/ CallMeta
    \/ CallMetaWithAddedRow
    \/ ListDirectory
    \/ ProcessFile
    \/ PrintDone

Spec == Init /\ [][Next]_vars

\* the calls of combine_hemispheres
SpecCombine == InitCombine /\ [][NextCombine]_vars

\* the calls of the two relabelers
SpecRelabel == (InitRelabel \/ InitMeta) /\ [][NextRelabel]_vars

\* the calls of relabel_nifti_to_meta_structure with a table that has one
\* row for each of its ids, none of them for the id 0
InitMetaOneRowPerId ==
    /\ InitMeta
    /\ \A j \in 1..Len(table.rows) :
          /\ table.rows[j].id # 0
          /\ \A k \in 1..Len(table.rows) : table.rows[j].id = table.rows[k].id => j = k

NextMeta == CallMeta

SpecMetaOneRowPerId == InitMetaOneRowPerId /\ [][NextMeta]_vars

\* the calls of relabel_nifti_to_meta_structure, and the calls after a row
\* was added to the table
NextMetaAddedRow == CallMeta \/ CallMetaWithAddedRow

SpecMetaAddedRow == InitMetaOneRowPerId /\ [][NextMetaAddedRow]_vars

\* WF_vars(ProcessFile) with its ENABLED written out: the body of the loop
\* can run, and changes pending, exactly when an entry is pending
LoopFairness ==
    []<>(pc # "loop" \/ pending = {}) \/ []<><<ProcessFile>>_vars

\* the runs of the white-matter scripts; the interpreter goes on to the
\* next statement as long as there is one
SpecPipeline ==
    /\ InitPipeline /\ [][NextPipeline]_vars
    /\ WF_vars(ListDirectory) /\ WF_vars(PrintDone) /\ LoopFairness

\* the calls with dtype_out left out (the output has the dtype of seed_labels
\* and holds every label unchanged) and two distinct seed labels
InitTwoLabels ==
    /\ pc = "start"
    /\ NotCalled
    /\ NoCombineArgs
    /\ NoRelabelArgs
    /\ InitSpacing
    /\ Cardinality({seed_labels.data[s] : s \in Support(seed_labels)}) = 2

SpecTwoLabels == InitTwoLabels /\ [][NextVoronoi]_vars

\* the calls with dtype_out left out and a spacing that is None or has one
\* positive entry per axis
InitPositiveSpacing ==
    /\ pc = "start"
    /\ NotCalled
    /\ NoCombineArgs
    /\ NoRelabelArgs
    /\ InitSpacing
    /\ SamplingLengthOk(spacing, Rank(seed_labels.shape))
    /\ spacing.given => \A k \in 1..Len(spacing.val) : spacing.val[k] > 0

SpecPositiveSpacing == InitPositiveSpacing /\ [][NextVoronoi]_vars

(***************************************************************************)
(* Properties                                                              *)
(***************************************************************************)
\* the call returned an array / raised an exception
Returned == pc = "done" /\ result.kind = "ok"

Raised == pc = "done" /\ result.kind = "error"

\* the voxels of the seed volume
Voxels == Indices(seed_labels.shape)

\* the seed voxels and the SeedSet, the distinct non-zero values of seed_labels
SeedVoxels == Support(seed_labels)

SeedSet == {seed_labels.data[s] : s \in SeedVoxels}

\* the voxels inside the mask
MaskVoxels == Support(to_subdivide)

SameShape == to_subdivide.shape = seed_labels.shape

\* the factors of the axes in the distance of the call
Factors == Sampling(spacing, Rank(seed_labels.shape))

\* squared spacing-weighted Euclidean distance between the voxels u and v
Dist2(u, v) ==
    LET RECURSIVE Sum(_)
        Sum(k) == IF k = 0 THEN 0 ELSE Sum(k - 1) + Sq((u[k] - v[k]) * Factors[k])
    IN  Sum(Len(u))

\* brute force: the seed voxels at minimal distance from v
NearestSeeds(v) ==
    {s \in SeedVoxels : \A t \in SeedVoxels : Dist2(s, v) <= Dist2(t, v)}

NearestSeedLabels(v) == {seed_labels.data[s] : s \in NearestSeeds(v)}

\* the spacing argument is None or has one positive entry per axis
SpacingLengthOk == SamplingLengthOk(spacing, Rank(seed_labels.shape))

SpacingPositive == spacing.given => \A k \in 1..Len(spacing.val) : spacing.val[k] > 0

\* every seed label can be held by the dtype of the returned array
LabelsFit == \A L \in SeedSet : CastTo(result.arr.dtype, L) = L

\* C1: whenever the call returns, the output has the shape of the inputs and
\* is 0 at every voxel where to_subdivide is 0, seed voxels included.
MaskContainment ==
    Returned =>
        /\ result.arr.shape = to_subdivide.shape
        /\ \A v \in Voxels : to_subdivide.data[v] = 0 => result.arr.data[v] = 0

\* C1 witness: a returned output that is 0 at a seed voxel outside the mask
\* and carries a label at a voxel inside the mask.
MaskContainmentWitness ==
    /\ Returned
    /\ \E v \in SeedVoxels : to_subdivide.data[v] = 0 /\ result.arr.data[v] = 0
    /\ \E v \in MaskVoxels : result.arr.data[v] # 0

\* C2: whenever the call returns, every voxel inside the mask that has a
\* nearest seed holds the label of a seed voxel at minimal spacing-weighted
\* distance from it: the label of the nearest seeds where they share one
\* label, one of their labels at a tie.
NearestSeedCorrect ==
    Returned =>
        \A v \in MaskVoxels : NearestSeeds(v) # {} => result.arr.data[v] \in NearestSeedLabels(v)

\* C2, on the inputs that the specification admits (a seed exists, the
\* spacing entries are positive, the labels fit the output dtype): the
\* feature transform agrees with the brute-force nearest-seed computation.
NearestSeedCorrectOnValidInput ==
    Returned /\ SeedSet # {} /\ SpacingPositive /\ LabelsFit =>
        \A v \in MaskVoxels : result.arr.data[v] \in NearestSeedLabels(v)

\* C3: whenever the call returns, a seed voxel inside the mask keeps its
\* own label.
SeedFidelity ==
    Returned => \A v \in SeedVoxels \cap MaskVoxels : result.arr.data[v] = seed_labels.data[v]

\* C3, on the inputs that the specification admits.
SeedFidelityOnValidInput ==
    Returned /\ SpacingPositive /\ LabelsFit =>
        \A v \in SeedVoxels \cap MaskVoxels : result.arr.data[v] = seed_labels.data[v]

UniformOnMask(L) ==
    \A v \in Voxels : result.arr.data[v] = (IF to_subdivide.data[v] # 0 THEN L ELSE 0)

EmptySeedSetRejected ==
    pc = "done" /\ SeedSet = {} => result.kind = "error"

\* C7: a call with an empty mask ends in an error and returns no array,
\* whatever the seed labels; the error is the empty-mask ValueError once the
\* shape and dimensionality checks are passed.
EmptyMaskRejected ==
    pc = "done" /\ MaskVoxels = {} =>
        /\ result.kind = "error" /\ result.exc = "ValueError" /\ result.arr = NoArray
        /\ (SameShape /\ Rank(to_subdivide.shape) >= 2 => result.msg = MsgEmpty)

\* C7 witness: the empty-mask error for an empty mask over a seed volume
\* with two labels.
EmptyMaskWitness ==
    /\ Raised /\ MaskVoxels = {} /\ Cardinality(SeedSet) = 2
    /\ result.msg = MsgEmpty

\* C8: a call with arrays of two shapes ends in the shape ValueError, also
\* when the arrays are 1-D or the mask is empty, and returns no array.
ShapeMismatchRejected ==
    pc = "done" /\ ~SameShape => result = Raise("ValueError", MsgShape)

\* C8 witness: the shape error for a 1-D empty mask and a seed volume of
\* another shape.
ShapeMismatchWitness ==
    /\ Raised /\ ~SameShape /\ Rank(to_subdivide.shape) < 2 /\ MaskVoxels = {}
    /\ result.msg = MsgShape

\* the spacing argument is given and has the wrong length or an entry <= 0
SpacingInvalid ==
    /\ spacing.given
    /\ \/ Len(spacing.val) # Rank(seed_labels.shape)
       \/ \E k \in 1..Len(spacing.val) : spacing.val[k] <= 0

\* C9: a call with an invalid spacing ends in an error.
InvalidSpacingRejected ==
    pc = "done" /\ SpacingInvalid => result.kind = "error"

\* C10: a call with fewer than 2 distinct seed labels ends in a ValueError.
TooFewSeedLabelsRejected ==
    pc = "done" /\ Cardinality(SeedSet) < 2 =>
        result.kind = "error" /\ result.exc = "ValueError"

\* C11: a returned array has the shape of the inputs, and its dtype is
\* dtype_out when dtype_out is given (as a scalar type, a np.dtype instance
\* or a dtype name) and the dtype of seed_labels when it is None
OutputShapeAndDtype ==
    Returned =>
        /\ result.arr.shape = seed_labels.shape
        /\ result.arr.shape = to_subdivide.shape
        /\ result.arr.dtype = IF dtype_out = NoDtype THEN seed_labels.dtype ELSE dtype_out.name

\* C11: a call with dtype_out a np.dtype instance of another dtype than seed_labels returned
OutputDtypeWitness ==
    /\ Returned
    /\ dtype_out.form = "dtype"
    /\ dtype_out.name # seed_labels.dtype
    /\ result.arr.dtype = dtype_out.name

\* the call of combine_hemispheres returned an array / raised an exception
CombineReturned == pc = "combine_done" /\ combined.kind = "ok"

CombineRaised == pc = "combine_done" /\ combined.kind = "error"

\* the arguments of combine_hemispheres the dtype and shape checks let pass
SameShapeIntegers ==
    left.shape = right.shape /\ IsInteger(left.dtype) /\ IsInteger(right.dtype)

\* the voxels that are non-zero in both arguments (of one shape)
OverlapVoxels ==
    {v \in Indices(left.shape) : left.data[v] # WideZero /\ right.data[v] # WideZero}

\* C12 (as stated): for integer arguments of one shape with disjoint non-zero
\* supports the call returns an array that holds at every voxel the value of
\* left where left is non-zero and the value of right elsewhere, which is
\* the sum of the two values
DisjointUnion ==
    pc = "combine_done" /\ SameShapeIntegers /\ OverlapVoxels = {} =>
        /\ combined.kind = "ok"
        /\ combined.arr.shape = left.shape
        /\ \A v \in Indices(left.shape) :
            /\ combined.arr.data[v] =
                  IF left.data[v] # WideZero THEN left.data[v] ELSE right.data[v]
            /\ combined.arr.data[v] = AddW(left.data[v], right.data[v])

\* C12, when np.where gives an integer array (every pair of dtypes but a
\* signed dtype with uint64): the rule of DisjointUnion
DisjointUnionOfIntegerResult ==
    /\ pc = "combine_done" /\ SameShapeIntegers /\ OverlapVoxels = {}
    /\ IsInteger(result_type(left.dtype, right.dtype))
    => /\ combined.kind = "ok"
       /\ combined.arr.shape = left.shape
       /\ \A v \in Indices(left.shape) :
            /\ combined.arr.data[v] =
                  IF left.data[v] # WideZero THEN left.data[v] ELSE right.data[v]
            /\ combined.arr.data[v] = AddW(left.data[v], right.data[v])

\* C13: when a voxel is non-zero in both arguments the call raises and
\* returns no array; for integer arguments the error is the ValueError
\* whose message holds the number of voxels that are non-zero in both
OverlapDetected ==
    pc = "combine_done" /\ left.shape = right.shape /\ OverlapVoxels # {} =>
        /\ combined.kind = "error"
        /\ combined.arr = NoArray
        /\ SameShapeIntegers =>
              combined = Raise("ValueError", MsgOverlap(Cardinality(OverlapVoxels)))

\* C13: a call raised for two voxels that overlap while left has more non-zero voxels
OverlapWitness ==
    /\ CombineRaised
    /\ SameShapeIntegers
    /\ Cardinality(OverlapVoxels) = 2
    /\ Cardinality({v \in Indices(left.shape) : left.data[v] # WideZero}) > 2
    /\ combined.msg = "Left/right overlap at 2 voxels."

\* C14: arguments of two shapes raise the shape ValueError, whatever their
\* dtypes; arguments of one shape one of which has no integer dtype raise
\* the TypeError, whatever their overlap; neither returns an array
InputConstraints ==
    /\ pc = "combine_done" /\ left.shape # right.shape
           => combined = Raise("ValueError", MsgShapes)
    /\ pc = "combine_done" /\ left.shape = right.shape
           /\ ~(IsInteger(left.dtype) /\ IsInteger(right.dtype))
           => combined = Raise("TypeError", MsgIntegers)

\* C14: a call with arguments of two shapes, one of them a float array,
\* raised the shape error
InputConstraintsWitness ==
    /\ CombineRaised
    /\ left.shape # right.shape
    /\ left.dtype = "float64"
    /\ combined.msg = MsgShapes

\* C14: a call with overlapping float arrays raised the TypeError
InputConstraintsOverlapWitness ==
    /\ CombineRaised
    /\ left.shape = right.shape
    /\ right.dtype = "float64"
    /\ OverlapVoxels # {}
    /\ combined.exc = "TypeError"

DataFiniteIntegers == AllFinite(data) /\ AllIntegerValued(data)

\* the integer a voxel of such a volume holds, and its distinct non-zero values
Held(v) == data.data[v].twice \div 2

DistinctNonZero == {Held(v) : v \in Indices(data.shape)} \ {0}

\* the rank of a non-zero value among the distinct non-zero values, from 1
RankOf(x) == Cardinality({y \in DistinctNonZero : y <= x})

\* C17 (as stated): a volume of finite integer values that holds a 0 is
\* relabeled, every voxel to the rank of its value among the distinct
\* non-zero values and every 0 to 0, in an output of the input's shape
DenseCompaction ==
    pc = "relabel_done" /\ DataFiniteIntegers /\ (\E v \in Indices(data.shape) : Held(v) = 0) =>
        /\ written.kind = "ok"
        /\ written.arr.shape = data.shape
        /\ \A v \in Indices(data.shape) :
              /\ written.arr.data[v] = IF Held(v) = 0 THEN 0 ELSE RankOf(Held(v))
              /\ written.arr.data[v] \in 0..Cardinality(DistinctNonZero)

\* C17, for volumes without a negative value: the rule of DenseCompaction
DenseCompactionOfNonNegative ==
    /\ pc = "relabel_done" /\ DataFiniteIntegers
    /\ \E v \in Indices(data.shape) : Held(v) = 0
    /\ \A v \in Indices(data.shape) : Held(v) >= 0
    => /\ written.kind = "ok"
       /\ written.arr.shape = data.shape
       /\ \A v \in Indices(data.shape) :
              /\ written.arr.data[v] = IF Held(v) = 0 THEN 0 ELSE RankOf(Held(v))
              /\ written.arr.data[v] \in 0..Cardinality(DistinctNonZero)

\* C17: the volume with the values 0, 5, 1000, 1001 was written as 0, 1, 2, 3
DenseCompactionWitness ==
    /\ pc = "relabel_done" /\ written.kind = "ok"
    /\ \E a, b, c, d \in Indices(data.shape) :
          /\ data.data[a] = Float(0) /\ written.arr.data[a] = 0
          /\ data.data[b] = Float(5) /\ written.arr.data[b] = 1
          /\ data.data[c] = Float(1000) /\ written.arr.data[c] = 2
          /\ data.data[d] = Float(1001) /\ written.arr.data[d] = 3

\* C18 (as stated): for a volume of finite integer values, relabel_nifti
\* raises the missing-background error if and only if no voxel holds 0
BackgroundCheck ==
    pc = "relabel_done" /\ DataFiniteIntegers =>
        (written = Raise("ValueError", MsgNoBackground)
            <=> \A v \in Indices(data.shape) : Held(v) # 0)

\* C18, for volumes without a negative value
BackgroundCheckOfNonNegative ==
    /\ pc = "relabel_done" /\ DataFiniteIntegers
    /\ \A v \in Indices(data.shape) : Held(v) >= 0
    => (written = Raise("ValueError", MsgNoBackground)
            <=> \A v \in Indices(data.shape) : Held(v) # 0)

\* a call of a relabeler has ended
RelabelerDone == pc \in {"relabel_done", "meta_done"}

\* C19 (as stated): both relabelers answer a volume with a non-finite
\* voxel with the finite-value error, and a finite volume with a voxel that
\* is no integer with the non-integer-label-map error; nothing is written
MalformedRejected ==
    RelabelerDone =>
        /\ ~AllFinite(data) => written = Raise("ValueError", MsgNonFinite)
        /\ AllFinite(data) /\ ~AllIntegerValued(data)
              => written = Raise("ValueError", MsgNotInteger)

\* C19 (amended): the same, for relabel_nifti_to_meta_structure when the
\* lookup table file exists
MalformedRejectedWhenTableExists ==
    RelabelerDone /\ (pc = "meta_done" => table.exists) =>
        /\ ~AllFinite(data) => written = Raise("ValueError", MsgNonFinite)
        /\ AllFinite(data) /\ ~AllIntegerValued(data)
              => written = Raise("ValueError", MsgNotInteger)

\* C19: relabel_nifti_to_meta_structure raised the finite-value error for a
\* volume that holds a nan and a voxel that is no integer
MalformedWitness ==
    /\ pc = "meta_done"
    /\ table.exists
    /\ \E v \in Indices(data.shape) : data.data[v] = NaN
    /\ \E v \in Indices(data.shape) : data.data[v].fin /\ data.data[v] # round(data.data[v])
    /\ written = Raise("ValueError", MsgNonFinite)

\* the rows of the table with a Structure, the categories they name, and
\* the categories the table gives an id
KeptRows == {k \in 1..Len(table.rows) : keep(table.rows[k])}

TableCategories == {strip(table.rows[k].Structure.chars) : k \in KeptRows}

CategoriesOf(id) == {strip(table.rows[k].Structure.chars) : k \in {j \in KeptRows : table.rows[j].id = id}}

\* the place of a category among the sorted categories of the table, from 1
OrdinalOf(c) == Cardinality({x \in TableCategories : x = c \/ LessStr(x, c)})

\* the call of relabel_nifti_to_meta_structure has a table, a volume of
\* finite integers, and a category for every non-zero id of the volume
MetaMapped ==
    /\ pc = "meta_done"
    /\ table.exists
    /\ DataFiniteIntegers
    /\ \A v \in Indices(data.shape) : Held(v) # 0 => CategoriesOf(Held(v)) # {}

\* C20 (as stated): every voxel holding a positive id is relabeled to the
\* place of the id's category among the sorted categories of the table,
\* and every 0 stays 0
StructureCollapsing ==
    MetaMapped /\ (\A v \in Indices(data.shape) : Held(v) >= 0) =>
        /\ written.kind = "ok"
        /\ written.arr.shape = data.shape
        /\ \A v \in Indices(data.shape) :
              /\ Held(v) = 0 => written.arr.data[v] = 0
              /\ Held(v) > 0 => \A c \in CategoriesOf(Held(v)) : written.arr.data[v] = OrdinalOf(c)

\* C20, for tables whose ids are all positive: the rule of StructureCollapsing
StructureCollapsingOfPositiveIds ==
    /\ MetaMapped
    /\ \A v \in Indices(data.shape) : Held(v) >= 0
    /\ \A k \in 1..Len(table.rows) : table.rows[k].id > 0
    => /\ written.kind = "ok"
       /\ written.arr.shape = data.shape
       /\ \A v \in Indices(data.shape) :
              /\ Held(v) = 0 => written.arr.data[v] = 0
              /\ Held(v) > 0 => \A c \in CategoriesOf(Held(v)) : written.arr.data[v] = OrdinalOf(c)

\* C20: with the table {1: A, 2: A, 3: B} the volume holding 1, 2, 3 was
\* written as 1, 1, 2
StructureCollapsingWitness ==
    /\ pc = "meta_done" /\ written.kind = "ok"
    /\ table = Table(<<Row(1, Str(NameA)), Row(2, Str(NameA)), Row(3, Str(NameB))>>)
    /\ \E a, b, c \in Indices(data.shape) :
          /\ data.data[a] = Float(1) /\ written.arr.data[a] = 1
          /\ data.data[b] = Float(2) /\ written.arr.data[b] = 1
          /\ data.data[c] = Float(3) /\ written.arr.data[c] = 2

\* the rows of the table whose Structure cell holds a name: the cell is
\* not missing and has a character that is no blank
Named(row) ==
    /\ ~row.Structure.na
    /\ \E k \in 1..Len(row.Structure.chars) : row.Structure.chars[k] # Space

\* the non-zero ids of the volume that no row of the table gives a name
Unmapped ==
    {x \in DistinctNonZero :
        \A k \in 1..Len(table.rows) : table.rows[k].id = x => ~Named(table.rows[k])}

\* the ids an error may list: the first 20 of the ascending unmapped ids
Listed ==
    SubSeq(SortAsc(Unmapped), 1,
           IF Cardinality(Unmapped) < 20 THEN Cardinality(Unmapped) ELSE 20)

\* C21: with a table and a volume of finite integers, when a non-zero id
\* of the volume has no row with a name, relabel_nifti_to_meta_structure
\* raises an error and writes nothing, and the error lists, in ascending
\* order, the first 20 at most of the ids that are in the volume and unmapped
CompletenessCheck ==
    pc = "meta_done" /\ table.exists /\ DataFiniteIntegers /\ Unmapped # {} =>
        /\ written.kind = "error"
        /\ written.arr = NoArray
        /\ written.exc = "ValueError"
        /\ written.msg =
              "Found label IDs in the NIfTI that are not mapped to a meta Structure in the table: ["
              \o JoinIds(Listed) \o "]"
              \o (IF Cardinality(Unmapped) > 20 THEN " ..." ELSE "")

\* C21: a volume with 21 unmapped ids was answered with an error that
\* lists 20 of them
CompletenessCheckManyWitness ==
    /\ pc = "meta_done" /\ table.exists /\ DataFiniteIntegers
    /\ Cardinality(Unmapped) = 21
    /\ Len(Listed) = 20
    /\ written.kind = "error"

\* C21: a volume whose id 1 has rows with a blank Structure only was
\* answered with an error that lists the id 1
CompletenessCheckWitness ==
    /\ pc = "meta_done" /\ table.exists /\ DataFiniteIntegers
    /\ Unmapped = {1}
    /\ \E k \in 1..Len(table.rows) : table.rows[k].id = 1 /\ ~table.rows[k].Structure.na
    /\ written.kind = "error"

\* the relabel map of the volume, its passes in the order p, and the new
\* label the map gives a value
RelabelItems == relabel_map(unique(astype_int64(data)))

PassesInOrder(p) ==
    ApplyPasses([v \in Indices(data.shape) |-> 0], astype_int64(data).data,
                [k \in 1..Len(RelabelItems) |-> RelabelItems[p[k]]])

MapOf(x) == (CHOOSE item \in {RelabelItems[k] : k \in 1..Len(RelabelItems)} : item[1] = x)[2]

\* C23: when relabel_nifti succeeds, the passes over the relabel map, in
\* any order, give the array of the gather new[v] = map[old[v]], and that
\* is the array written
PassesAreGather ==
    pc = "relabel_done" /\ written.kind = "ok" =>
        /\ written.arr.data = [v \in Indices(data.shape) |-> MapOf(Held(v))]
        /\ \A p \in Permutations(1..Len(RelabelItems)) :
              PassesInOrder(p) = [v \in Indices(data.shape) |-> MapOf(Held(v))]

\* C23: the volume with the labels 0, 2, 3 was written with 0, 1, 2, the
\* new label 2 being an old label too
PassesAreGatherWitness ==
    /\ pc = "relabel_done" /\ written.kind = "ok"
    /\ {Held(v) : v \in Indices(data.shape)} = {0, 2, 3}
    /\ \A v \in Indices(data.shape) :
          written.arr.data[v] = IF Held(v) = 0 THEN 0 ELSE Held(v) - 1

\* the new label the relabel map gives each distinct non-zero value
ForegroundMap == [x \in DistinctNonZero |-> MapOf(x)]

\* C28: the relabel map that relabel_nifti builds takes the distinct
\* non-zero values of the volume one-to-one onto 1..K in their order, and a
\* call of relabel_nifti on the image it saved saves the same image again
OrderPreservingBijection ==
    /\ pc \in {"relabel_done", "relabel_repeated"} /\ written.kind = "ok" =>
          /\ {RelabelItems[k][1] : k \in 1..Len(RelabelItems)} = DistinctNonZero \cup {0}
          /\ Len(RelabelItems) = Cardinality(DistinctNonZero) + 1
          /\ {ForegroundMap[x] : x \in DistinctNonZero} = 1..Cardinality(DistinctNonZero)
          /\ \A a, b \in DistinctNonZero : a < b => ForegroundMap[a] < ForegroundMap[b]
    /\ pc = "relabel_repeated" =>
          /\ again = written
          /\ \A v \in Indices(data.shape) : again.arr.data[v] = written.arr.data[v]

\* C28: the volume with the values 0, 3, 5, 1000 was saved as 0, 1, 2, 3,
\* and the call on that image has saved it again
OrderPreservingBijectionWitness ==
    /\ pc = "relabel_repeated"
    /\ {Held(v) : v \in Indices(data.shape)} = {0, 3, 5, 1000}
    /\ {written.arr.data[v] : v \in Indices(data.shape)} = 0..3
    /\ again.kind = "ok"

\* C27 (as stated): when relabel_nifti or relabel_nifti_to_meta_structure
\* succeeds, a voxel of the output is 0 if and only if the voxel of the
\* input is 0
SupportPreserved ==
    RelabelerDone /\ written.kind = "ok" =>
        \A v \in Indices(data.shape) : written.arr.data[v] = 0 <=> Held(v) = 0

\* C27, for volumes without a negative value: the rule of SupportPreserved
SupportPreservedOfNonNegative ==
    RelabelerDone /\ written.kind = "ok" /\ (\A v \in Indices(data.shape) : Held(v) >= 0) =>
        \A v \in Indices(data.shape) : written.arr.data[v] = 0 <=> Held(v) = 0

\* C30 (as stated): after a row was added to the table, for an id that is
\* not in the volume and with a category the table holds already,
\* relabel_nifti_to_meta_structure writes the array it wrote before
AddedRowChangesNothing ==
    pc = "meta_extended" => again = written

\* C30, for an added row with a positive id: the rule of AddedRowChangesNothing
AddedPositiveRowChangesNothing ==
    pc = "meta_extended" /\ (\A k \in 1..Len(table.rows) : table.rows[k].id > 0) =>
        again = written

\* the voxels where an argument of combine_hemispheres is not 0
SupportOf(a) == {v \in Indices(a.shape) : a.data[v] # WideZero}

\* the parts of C29: the exchanged call gives what the call gave (the same
\* array, or the same error with the same count); a call with an all-zero
\* argument returns the values of the other argument; the result is
\* non-zero exactly where one of the arguments is
Commutative == pc = "combine_swapped" /\ left.shape = right.shape => again = combined

ZeroIsIdentity ==
    pc = "combine_done" /\ SameShapeIntegers =>
        /\ SupportOf(right) = {} =>
              combined.kind = "ok" /\ \A v \in Indices(left.shape) : combined.arr.data[v] = left.data[v]
        /\ SupportOf(left) = {} =>
              combined.kind = "ok" /\ \A v \in Indices(left.shape) : combined.arr.data[v] = right.data[v]

SupportIsUnion ==
    CombineReturned => SupportOf(combined.arr) = SupportOf(left) \cup SupportOf(right)

\* C29 (as stated): combine_hemispheres is commutative, an all-zero volume
\* is its identity, and the non-zero support of the result is the union of
\* the supports of the arguments
CommutativeWithIdentity == Commutative /\ ZeroIsIdentity /\ SupportIsUnion

\* C29, when np.where gives an integer array (every pair of dtypes but a
\* signed dtype with uint64): the rule of CommutativeWithIdentity
CommutativeWithIdentityOfIntegerResult ==
    /\ Commutative
    /\ SupportIsUnion
    /\ IsInteger(result_type(left.dtype, right.dtype)) => ZeroIsIdentity

\* the precondition violations of the call that has ended
VoronoiViolations ==
    (IF ~SameShape THEN {"shape mismatch"} ELSE {})
    \cup (IF Rank(to_subdivide.shape) < 2 THEN {"dimensions"} ELSE {})
    \cup (IF SeedSet = {} THEN {"empty seed set"} ELSE {})
    \cup (IF MaskVoxels = {} THEN {"empty mask"} ELSE {})
    \cup (IF SpacingInvalid THEN {"invalid spacing"} ELSE {})

CombineViolations ==
    (IF left.shape # right.shape THEN {"shape mismatch"} ELSE {})
    \cup (IF ~IsInteger(left.dtype) \/ ~IsInteger(right.dtype)
          THEN {"non-integer label map"} ELSE {})
    \cup (IF left.shape = right.shape /\ OverlapVoxels # {} THEN {"hemisphere overlap"} ELSE {})

RelabelViolations ==
    (IF ~AllFinite(data) THEN {"non-finite"} ELSE {})
    \cup (IF AllFinite(data) /\ ~AllIntegerValued(data) THEN {"non-integer label map"} ELSE {})
    \cup (IF pc = "meta_done" /\ ~table.exists THEN {"missing table"} ELSE {})
    \cup (IF pc = "relabel_done" /\ DataFiniteIntegers /\ \A v \in Indices(data.shape) : Held(v) # 0
          THEN {"missing background"} ELSE {})
    \cup (IF pc = "meta_done" /\ table.exists /\ DataFiniteIntegers /\ Unmapped # {}
          THEN {"unknown label"} ELSE {})

Violations ==
    IF pc = "done" THEN VoronoiViolations
    ELSE IF pc = "combine_done" THEN CombineViolations
    ELSE IF RelabelerDone THEN RelabelViolations
    ELSE {}

\* the outcome of that call, and the violation its error names
CallOutcome ==
    IF pc = "done" THEN result ELSE IF pc = "combine_done" THEN combined ELSE written

KindOf(o) ==
    IF o.msg \in {MsgShape, MsgShapes} THEN "shape mismatch"
    ELSE IF o.msg = MsgNdim THEN "dimensions"
    ELSE IF o.msg = MsgEmpty THEN "empty mask"
    ELSE IF o.msg = MsgSampling THEN "invalid spacing"
    ELSE IF o.msg \in {MsgOverlap(n) : n \in 1..MaxVoxels} THEN "hemisphere overlap"
    ELSE IF o.msg \in {MsgIntegers, MsgNotInteger} THEN "non-integer label map"
    ELSE IF o.msg = MsgNonFinite THEN "non-finite"
    ELSE IF o.msg = MsgNoTable THEN "missing table"
    ELSE IF o.msg = MsgNoBackground THEN "missing background"
    ELSE IF o.exc = "ValueError" /\ o.arr = NoArray
            /\ o.msg \notin {MsgNegativeDimensions, MsgIndex, ""} THEN "unknown label"
    ELSE "other"

\* C22 (as stated): a call that violates a precondition ends in an error,
\* and the error names a violation of the call: the violations (shape
\* mismatch, empty seed set, empty mask, invalid spacing, hemisphere
\* overlap, non-integer label map, missing background, unknown label) can
\* be told apart by the error
ViolationsSurfaced ==
    Violations # {} =>
        /\ CallOutcome.kind = "error"
        /\ CallOutcome.arr = NoArray
        /\ KindOf(CallOutcome) \in Violations

\* C22, without the empty seed set and the invalid spacing: a call with
\* another violation ends in an error that names a violation of the call
OtherViolationsSurfaced ==
    Violations \ {"empty seed set", "invalid spacing"} # {} =>
        /\ CallOutcome.kind = "error"
        /\ CallOutcome.arr = NoArray
        /\ KindOf(CallOutcome) \in Violations

\* the last entry of the loop was a selected file, and it was saved
LastSelected == file # <<>> /\ selected(script, file, directory[file])

JustSaved == pc \in {"loop", "pipeline_done"} /\ LastSelected

\* the voxels of that file in the white-matter mask and among the seeds of
\* a hemisphere
MaskLeft == Support(where_isin(directory[file].data, freesurfer_labelmap_wm_left(freesurfer_labelmap_full)))

MaskRight == Support(where_isin(directory[file].data, freesurfer_labelmap_wm_right(freesurfer_labelmap_full)))

SeedsLeft == Support(where_isin(directory[file].data, freesurfer_labelmap_left(freesurfer_labelmap_full)))

SeedsRight == Support(where_isin(directory[file].data, freesurfer_labelmap_right(freesurfer_labelmap_full)))

\* C24: in a run of a white-matter script the white-matter ids of the two
\* hemispheres are disjoint, no run ends in the overlap error, the two
\* subparcellations of a saved file lie in their masks and have disjoint
\* supports, and when each hemisphere has a seed the combined volume is
\* non-zero exactly on the union of the two masks
HemispheresDisjoint ==
    /\ pc \in {"loop", "pipeline_done", "pipeline_failed"} =>
          /\ freesurfer_labelmap_wm_left(freesurfer_labelmap_full)
                \cap freesurfer_labelmap_wm_right(freesurfer_labelmap_full) = {}
          /\ raised.msg \notin {MsgOverlap(n) : n \in 1..MaxVoxels}
    /\ JustSaved =>
          /\ Support(voronoi_segm_left) \subseteq MaskLeft
          /\ Support(voronoi_segm_right) \subseteq MaskRight
          /\ Support(voronoi_segm_left) \cap Support(voronoi_segm_right) = {}
          /\ SeedsLeft # {} /\ SeedsRight # {} =>
                SupportOf(voronoi_segm_wholebrain) = MaskLeft \cup MaskRight

\* C24: a file was saved whose two seed sets share a label without a
\* hemisphere, and whose combined volume is non-zero on the two masks
HemispheresDisjointWitness ==
    /\ JustSaved
    /\ SeedsLeft \cap SeedsRight # {}
    /\ SeedsLeft \ SeedsRight # {} /\ SeedsRight \ SeedsLeft # {}
    /\ MaskLeft # {} /\ MaskRight # {}
    /\ SupportOf(voronoi_segm_wholebrain) = MaskLeft \cup MaskRight

\* the label-map files of the directory
LabelMapFiles == {n \in DOMAIN directory : selected(script, n, directory[n])}

\* the names the script would save the entries of the directory under
OutputNames == {output_filename(script, n) : n \in DOMAIN directory}

\* no output name holds the label-map suffix, and the file of the loop
\* body is no output; the count never exceeds the label-map files
OutputsNotSelected ==
    /\ \A n \in OutputNames : ~contains(n, SUFFIX_LABEL_MAP(script))
    /\ LastSelected => file \notin OutputNames
    /\ count <= Cardinality(LabelMapFiles)

\* C25: in a run of a white-matter script no output name holds the
\* label-map suffix and no output is selected as an input; the run ends,
\* and when the script h ends with its message the count is the number of
\* label-map files the directory held at the start
OutputsNeverInputs ==
    /\ [](pc \in {"pipeline", "loop", "pipeline_done", "pipeline_failed"} => OutputsNotSelected)
    /\ (pc = "pipeline") ~> (pc \in {"pipeline_done", "pipeline_failed"})
    /\ \A k \in 0..MaxFiles :
          pc = "pipeline" /\ Cardinality(LabelMapFiles) = k =>
              [](pc = "pipeline_done" /\ script = "h" =>
                    count = k /\ printed = "Done. Subparcellated " \o ToString(k) \o " files.")

\* C25: a run of the script h has ended with the count 2 on a directory
\* that held an output of an earlier run and holds two more outputs now
OutputsNeverInputsWitness ==
    /\ pc = "pipeline_done" /\ script = "h"
    /\ count = 2
    /\ Cardinality(LabelMapFiles) = 2
    /\ Cardinality(DOMAIN directory) = 4
    /\ NameOf(97, SUFFIX_LABEL_OUTPUT("h")) \in DOMAIN directory

\* the body of the loop raises for the entry of this name
RaisesFor(name) ==
    /\ selected(script, name, directory[name])
    /\ subsegment(freesurfer_labelmap_full, directory[name]).kind = "error"

\* C26: when voronoi_subparcellate or combine_hemispheres raises for a file
\* the run ends at that file with the exception: the directory and the
\* count stay as they are, no step follows, and nothing is printed; the
\* message is printed only in a run that raised nothing and saved an output
\* for every label-map file
ErrorStopsRun ==
    /\ [][pc = "loop" /\ pending' # pending /\ RaisesFor(file') =>
              /\ pc' = "pipeline_failed"
              /\ raised' = subsegment(freesurfer_labelmap_full, directory[file'])
              /\ directory' = directory
              /\ count' = count]_vars
    /\ [][pc # "pipeline_failed"]_vars
    /\ [](pc = "pipeline_failed" => printed = "" /\ raised.kind = "error")
    /\ [](printed # "" =>
              /\ pc = "pipeline_done"
              /\ raised = NoResult
              /\ \A n \in LabelMapFiles :
                    /\ output_filename(script, n) \in DOMAIN directory
                    /\ directory[output_filename(script, n)].image)

\* C26: a run has ended with the empty-mask error of voronoi_subparcellate
\* after one file was saved, whose output is in the directory, and with a
\* label-map file still to come
ErrorStopsRunWitness ==
    /\ pc = "pipeline_failed"
    /\ raised = Raise("ValueError", MsgEmpty)
    /\ count = 1
    /\ output_filename(script, file) \notin DOMAIN directory
    /\ \E n \in LabelMapFiles \ pending : n # file /\ output_filename(script, n) \in DOMAIN directory
    /\ \E n \in LabelMapFiles : n \in pending

====
